---------------------------- MODULE Spec2Model ----------------------------
(***************************************************************************)
(* A model of the new-tab extension's settings layer: the StorageManager   *)
(* (scripts/storage.js, held in src/scripts/engines.js lines 366-579), the *)
(* Engines registry, the settings panel's engine list and the Search       *)
(* module's engine cycling.                                                *)
(*                                                                         *)
(* JavaScript values are tagged records [t, v]: "undef", "null", "num",    *)
(* "str", "bool", "arr" (v a sequence) and "obj" (v a function from key    *)
(* names to values).  Fractions are held in tenths (0.8 is Num(8)).        *)
(* Strings that the code inspects (engine name, url, icon) are sequences   *)
(* of characters; a block such as "https://www.bing.com/search?q=" stands  *)
(* for a run of characters that holds no "%s" and no blank at its ends.    *)
(***************************************************************************)
EXTENDS Integers, Sequences, FiniteSets, TLC

VARIABLES
  store,            \* chrome.storage.local[storageKey]: a document or Undef
  defaultSettings,  \* StorageManager.defaultSettings
  initPc,           \* StorageManager.init(): "start", "writing", "done"
  initRet,          \* the value init() resolved with (Undef until then)
  mergeRet,         \* what the mergeWithDefaults call made by init() returned
  persisted,        \* the document init() read from storage (Undef if none)
  got,              \* the last getCategory call and what it returned
  calls,            \* storage calls issued so far, in the order of issue
  writeOrder,       \* ids of the calls whose write landed, in landing order
  engines,          \* Engines.engines
  defaultEngineId,  \* Engines.defaultEngineId
  sEngines,         \* Settings.engines
  editingEngine,    \* Settings.editingEngine: an engine id, or NoEngine
  modalOpen,        \* the engine modal is displayed
  rendered,         \* the engines drawn by the last renderEnginesList
  searchEngines,    \* Search.engines, when it is an array of its own
  searchAliased,    \* Search.engines is the very array Settings.engines is
  currentEngineIndex, \* Search.currentEngineIndex (0-based)
  tabSwitchEnabled, \* Search.tabSwitchEnabled
  run,              \* the switchEngine calls made since Search was last set up
  app,              \* per open page: the App and the modules it coordinates
  inbox,            \* per open page: the storage changes not yet delivered
  now,              \* Date.now()
  last              \* the operation called in the last step, and its outcome

storeV == <<store, defaultSettings>>
initV == <<initPc, initRet, mergeRet, persisted>>
regV == <<engines, defaultEngineId>>
panelV == <<sEngines, editingEngine, modalOpen, rendered>>
searchV == <<searchEngines, searchAliased, currentEngineIndex, tabSwitchEnabled,
             run>>
appV == <<app, inbox>>
modV == <<regV, panelV, searchV, now, appV>>

vars == <<storeV, initV, got, calls, writeOrder, modV, last>>

----------------------------------------------------------------------------
(* JavaScript values *)

Undef == [t |-> "undef", v |-> 0]
Null == [t |-> "null", v |-> 0]
Num(n) == [t |-> "num", v |-> n]
Str(s) == [t |-> "str", v |-> s]
Bool(b) == [t |-> "bool", v |-> b]
Arr(s) == [t |-> "arr", v |-> s]
Obj(f) == [t |-> "obj", v |-> f]
\* An array that was given named properties (deepMerge into an array).
ArrProps(s, f) == [t |-> "arrprops", v |-> [items |-> s, props |-> f]]
\* A TypeError raised inside mergeWithDefaults.
Threw == [t |-> "threw", v |-> 0]

NoKeys == [k \in {} |-> Undef]

\* JavaScript truthiness.
Truthy(x) ==
  CASE x.t \in {"undef", "null", "threw"} -> FALSE
    [] x.t = "num" -> x.v # 0
    [] x.t = "str" -> x.v # ""
    [] x.t = "bool" -> x.v
    [] OTHER -> TRUE

\* source[key] && typeof source[key] === 'object' && !Array.isArray(source[key])
IsPlainObject(x) == x.t = "obj"

\* obj[key] for a truthy obj: undefined unless obj is an object holding key.
Prop(obj, key) ==
  IF obj.t = "obj" /\ key \in DOMAIN obj.v THEN obj.v[key] ELSE Undef

Keys(obj) == IF obj.t = "obj" THEN DOMAIN obj.v ELSE {}

----------------------------------------------------------------------------
(* Strings the code inspects *)

\* url.includes('%s')
Includes(url) ==
  \E i \in 1..(Len(url) - 1) : url[i] = "%" /\ url[i + 1] = "s"

RECURSIVE TrimStart(_)
TrimStart(s) ==
  IF s # <<>> /\ Head(s) = " " THEN TrimStart(Tail(s)) ELSE s

RECURSIVE TrimEnd(_)
TrimEnd(s) ==
  IF s # <<>> /\ s[Len(s)] = " " THEN TrimEnd(SubSeq(s, 1, Len(s) - 1)) ELSE s

\* String.prototype.trim
Trim(s) == TrimEnd(TrimStart(s))

----------------------------------------------------------------------------
(* StorageManager: the default document *)

Categories == {"general", "wallpaper", "engines", "theme"}

Engine(id, name, url, icon) ==
  [id |-> id, name |-> name, url |-> url, icon |-> icon]

\* The default engine list; the name of the third engine, two CJK characters
\* in the source, is written "Baidu".
StorageDefaultEngines ==
  << Engine("google", <<"Google">>,
            <<"https://www.google.com/search?q=", "%", "s">>,
            <<"assets/icons/google.ico">>),
     Engine("bing", <<"Bing">>,
            <<"https://www.bing.com/search?q=", "%", "s">>,
            <<"assets/icons/bing.ico">>),
     Engine("baidu", <<"Baidu">>,
            <<"https://www.baidu.com/s?wd=", "%", "s">>,
            <<"assets/icons/baidu.ico">>),
     Engine("duckduckgo", <<"DuckDuckGo">>,
            <<"https://duckduckgo.com/?q=", "%", "s">>,
            <<"assets/icons/duckduckgo.ico">>) >>

DefaultSettings ==
  Obj([general |->
         Obj([searchWidth |-> Num(40), searchHeight |-> Num(7),
              searchRadius |-> Num(30), searchOpacity |-> Num(8),
              openIn |-> Str("new-tab"), tabSwitch |-> Bool(TRUE)]),
       wallpaper |->
         Obj([imageUrl |-> Str("assets/images/default.png"),
              blur |-> Num(0), overlayOpacity |-> Num(3)]),
       engines |->
         Obj([default |-> Str("google"), list |-> Arr(StorageDefaultEngines)]),
       theme |-> Obj([mode |-> Str("system")])])

----------------------------------------------------------------------------
(* StorageManager.mergeWithDefaults *)

\* JSON.parse(JSON.stringify(x)): a structural copy in which an undefined
\* property is dropped and an array keeps its elements only (the elements of
\* the model's arrays are engine records of strings, which JSON keeps).
RECURSIVE JsonClone(_)
JsonClone(x) ==
  CASE x.t = "obj" ->
         Obj([k \in {j \in DOMAIN x.v : x.v[j].t # "undef"} |-> JsonClone(x.v[k])])
    [] x.t = "arrprops" -> Arr(x.v.items)
    [] OTHER -> x

\* deepMerge(target, source) for an object source: the value target holds when
\* the loop is over, or Threw.  A property assignment on a primitive target
\* raises a TypeError (ES modules are strict); an array target takes the
\* properties beside its elements.
RECURSIVE deepMerge(_, _)
deepMerge(target, source) ==
  LET old(key) == CASE target.t = "obj" -> Prop(target, key)
                    [] target.t = "arrprops" ->
                         IF key \in DOMAIN target.v.props
                         THEN target.v.props[key] ELSE Undef
                    [] OTHER -> Undef
      new(key) == IF IsPlainObject(source.v[key])
                  THEN deepMerge(IF Truthy(old(key)) THEN old(key) ELSE Obj(NoKeys),
                                 source.v[key])
                  ELSE source.v[key]
      props == [key \in DOMAIN source.v |-> new(key)]
  IN  IF DOMAIN source.v = {} THEN target
      ELSE IF target.t \notin {"obj", "arr", "arrprops"} THEN Threw
      ELSE IF \E key \in DOMAIN props : props[key].t = "threw" THEN Threw
      ELSE CASE target.t = "obj" -> Obj(props @@ target.v)
             [] target.t = "arr" -> ArrProps(target.v, props)
             [] target.t = "arrprops" ->
                  ArrProps(target.v.items, props @@ target.v.props)

\* mergeWithDefaults(data) run against the default document `defaults`: the
\* document returned, or Threw for a TypeError.  The merge works on a copy,
\* so `defaults` itself is left as it is.
mergeWithDefaults(defaults, data) == deepMerge(JsonClone(defaults), data)

----------------------------------------------------------------------------
(* Bounds and input sets *)

\* A persisted document differs from the empty document in at most this many
\* entries (a category set to a value, or a key of a category set to a value).
MaxEntries == 2

\* At most this many storage calls are issued in one behaviour.
MaxCalls == 2

\* At most this many calls of the Engines registry reach storage in one
\* behaviour.
MaxOps == 1

CustomEngine ==
  Engine("custom_1", <<"Mine">>, <<"https://example.org/?q=", "%", "s">>,
         <<"assets/ui/search.svg">>)

\* Values a persisted category may hold.
CatVals == {Null, Num(5), Arr(<<>>), Obj(NoKeys)}

\* Values a persisted key of a category may hold.
LeafVals == {Null, Num(0), Str("x"), Arr(<<CustomEngine>>), Obj("x" :> Num(1))}

DefaultKeys(cat) == DOMAIN DefaultSettings.v[cat].v

PutCat(d, cat, val) == Obj((cat :> val) @@ d.v)

PutKey(d, cat, key, val) ==
  LET c == Prop(d, cat)
  IN  Obj((cat :> Obj((key :> val) @@ (IF c.t = "obj" THEN c.v ELSE NoKeys)))
          @@ d.v)

RECURSIVE DocsUpTo(_)
DocsUpTo(n) ==
  IF n = 0 THEN {Obj(NoKeys)}
  ELSE LET prev == DocsUpTo(n - 1)
       IN  prev
           \cup {PutCat(d, c, x) : d \in prev, c \in Categories, x \in CatVals}
           \cup UNION {{PutKey(d, c, k, x) : d \in prev, k \in DefaultKeys(c),
                                             x \in LeafVals} : c \in Categories}

\* What storage may hold when the page boots: nothing, or a partial document.
PersistedDocs(n) == {Undef} \cup DocsUpTo(n)

----------------------------------------------------------------------------
(* Storage calls *)

\* A call of StorageManager.set (owner "init") or of updateCategory:
\*   st      "get" (the read is pending), "set" (the write is pending), "ok",
\*           "readFailed" or "writeFailed"
\*   read    the document the read returned (Undef before it, or if empty)
\*   doc     the document handed to chrome.storage.local.set
\*   raced   the calls whose write was pending when this call's write landed
\*   clean   no other write landed between this call's read and its write
\*   env     what the calling function holds for its continuation
Call(owner, cat, updates, st, doc, env) ==
  [owner |-> owner, cat |-> cat, updates |-> updates, st |-> st,
   read |-> Undef, doc |-> doc, raced |-> {}, clean |-> FALSE, env |-> env]

NoEnv == [pre |-> [engines |-> <<>>, defaultEngineId |-> ""], index |-> 0,
          old |-> <<>>]

\* A set() that merges the document into the stored one, key by key.
SetResultMerged(old, settings) ==
  IF old.t = "obj" THEN [t |-> "obj", v |-> settings.v @@ old.v] ELSE settings

\* chrome.storage.local.set({[storageKey]: settings}): the value stored under
\* the key once the write has landed over `old`.
SetResult(old, settings) == settings

\* The calls once call i's write has landed.
Landed(i) ==
  [calls EXCEPT
     ![i].st = "ok",
     ![i].raced = {j \in 1..Len(calls) : j # i /\ calls[j].st = "set"},
     ![i].clean = (store = calls[i].read)]

\* A write lands: call i's document becomes the stored one.
LandStore(i) ==
  /\ store' = SetResult(store, calls[i].doc)
  /\ writeOrder' = Append(writeOrder, i)

LandWrite(i) == LandStore(i) /\ calls' = Landed(i)

\* The calls once the pending read or write of call i has failed.
Failed(i) ==
  [calls EXCEPT
     ![i].st = IF calls[i].st = "get" THEN "readFailed" ELSE "writeFailed"]

\* A failure after which the document handed to set() is stored all the same.
FailCallStores(i) ==
  /\ calls' = Failed(i)
  /\ store' = IF calls[i].st = "set" THEN calls[i].doc ELSE store
  /\ UNCHANGED writeOrder

\* chrome.runtime.lastError is set: the pending read or write of call i fails.
FailCall(i) ==
  /\ calls' = Failed(i)
  /\ UNCHANGED <<store, writeOrder>>

CallIds == 1..Len(calls)

NoGot == [cat |-> "none", val |-> Undef, readOk |-> TRUE, afterInit |-> FALSE,
          writes |-> 0]

\* The last step was none of the operations the claims are about.
NoOp == [op |-> "none"]

\* The last step was a registry operation that threw on its arguments.
Rejected == [op |-> "rejected"]

NoEngine == "(none)"

\* No switchEngine call has been counted.
NoRun == [start |-> 0, n |-> 0]

\* An operation that throws, or returns, before its first await leaves
\* nothing pending: what runs next is the continuation of its caller, ahead
\* of every storage callback and every user event.  So does the continuation
\* of the caller of a registry operation that rethrew from its catch block.
Returned ==
  \/ last.op \in {"rejected", "rolled back"}
  \/ last.op = "addEngine" /\ last.threw
  \/ last.op = "saveEngine" /\ last.refused

\* A new task (a user event, a storage callback) may start.
Ready == ~Returned

CallerResumes ==
  /\ Returned
  /\ last' = NoOp
  /\ UNCHANGED <<storeV, initV, got, calls, writeOrder, modV>>

----------------------------------------------------------------------------
(* StorageManager.init *)

\* init() up to the end of `await this.get()`: a failed read is caught and
\* resolves with the defaults; with nothing stored the defaults are written;
\* otherwise the merge of the stored document is returned (a TypeError of the
\* merge is caught like any other error).
StorageInitRead(readOk) ==
  /\ initPc = "start"
  /\ IF ~readOk
     THEN /\ initPc' = "done"
          /\ initRet' = defaultSettings
          /\ UNCHANGED <<mergeRet, persisted, calls>>
     ELSE IF ~Truthy(store)
     THEN /\ initPc' = "writing"
          /\ calls' = Append(calls, Call("init", "none", NoKeys, "set",
                                         JsonClone(defaultSettings), NoEnv))
          /\ UNCHANGED <<initRet, mergeRet, persisted>>
     ELSE LET m == mergeWithDefaults(defaultSettings, store)
          IN  /\ initPc' = "done"
              /\ persisted' = store
              /\ mergeRet' = m
              /\ initRet' = IF m.t = "threw" THEN defaultSettings ELSE m
              /\ UNCHANGED calls
  /\ last' = NoOp
  /\ UNCHANGED <<storeV, got, writeOrder, modV>>

\* init() after `await this.set(this.defaultSettings)`: resolves with the
\* defaults whether the write succeeded or was caught.
StorageInitWrite(i, writeOk) ==
  /\ i \in CallIds
  /\ calls[i].owner = "init"
  /\ calls[i].st = "set"
  /\ initPc' = "done"
  /\ initRet' = defaultSettings
  /\ IF writeOk THEN LandWrite(i) ELSE FailCall(i)
  /\ last' = NoOp
  /\ UNCHANGED <<defaultSettings, mergeRet, persisted, got, modV>>

----------------------------------------------------------------------------
(* StorageManager.getCategory *)

\* A getCategory without its catch block: a failed read is thrown on.
getCategoryRethrows(doc, defaults, category, readOk) ==
  IF ~readOk THEN Threw
  ELSE IF Truthy(doc) THEN Prop(doc, category)
  ELSE Prop(defaults, category)

\* A getCategory that indexes whatever the read returned.
getCategoryStoredOnly(doc, defaults, category, readOk) ==
  IF ~readOk THEN Prop(defaults, category) ELSE Prop(doc, category)

\* getCategory(category): the slice returned, given the stored document and
\* whether the read succeeded.
getCategory(doc, defaults, category, readOk) ==
  IF ~readOk THEN Prop(defaults, category)
  ELSE IF Truthy(doc) THEN Prop(doc, category)
  ELSE Prop(defaults, category)

\* A module calls getCategory once App.init has awaited storageManager.init().
GetCategory(category, readOk) ==
  /\ initPc = "done"
  /\ got' = [cat |-> category,
             val |-> getCategory(store, defaultSettings, category, readOk),
             readOk |-> readOk, afterInit |-> initPc = "done",
             writes |-> Len(writeOrder)]
  /\ last' = NoOp
  /\ UNCHANGED <<storeV, initV, calls, writeOrder, modV>>

----------------------------------------------------------------------------
(* StorageManager.updateCategory *)

\* {...x}: the own properties of an object; none for undefined, null, a
\* number or a boolean (a category of the documents updateCategory runs over
\* is an object or is missing).
Spread(x) == IF x.t = "obj" THEN x.v ELSE NoKeys

\* An updateCategory that writes the updated category alone.
updatedSettingsAlone(allSettings, category, updates) ==
  LET all == IF Truthy(allSettings) THEN allSettings ELSE Obj(NoKeys)
  IN  Obj(category :> Obj(updates @@ Spread(Prop(all, category))))

\* An updateCategory that replaces the category by the updates.
updatedSettingsReplacing(allSettings, category, updates) ==
  LET all == IF Truthy(allSettings) THEN allSettings ELSE Obj(NoKeys)
  IN  Obj((category :> Obj(updates)) @@ Spread(all))

\* updatedSettings: { ...allSettings, [category]: { ...allSettings[category],
\* ...updates } }, where allSettings is what the read returned, or {}.
updatedSettings(allSettings, category, updates) ==
  LET all == IF Truthy(allSettings) THEN allSettings ELSE Obj(NoKeys)
  IN  Obj((category :> Obj(updates @@ Spread(Prop(all, category))))
          @@ Spread(all))

\* A value of `updates` that is a reference to a module's engine array is read
\* when the document is handed to chrome.storage.local.set.
Deref(x) ==
  IF x.t = "ref" THEN Arr(IF x.v = "settings" THEN sEngines ELSE engines) ELSE x

\* updateCategory(category, updates) is called: its read is pending.
Issued(cs, owner, category, updates, env) ==
  Append(cs, Call(owner, category, updates, "get", Undef, env))

IssueUpdate(owner, category, updates, env) ==
  calls' = Issued(calls, owner, category, updates, env)

\* `await this.get()` resolves inside updateCategory: the updated document is
\* built and handed to set().
UpdateCategoryRead(i) ==
  /\ Ready
  /\ i \in CallIds
  /\ calls[i].st = "get"
  /\ calls' = [calls EXCEPT
                 ![i].st = "set",
                 ![i].read = store,
                 ![i].doc = JsonClone(updatedSettings(store, calls[i].cat,
                              [k \in DOMAIN calls[i].updates |->
                                 Deref(calls[i].updates[k])]))]
  /\ last' = NoOp
  /\ UNCHANGED <<storeV, initV, got, writeOrder, modV>>

\* Some caller calls updateCategory(category, updates).
UpdateCategoryCall(category, updates) ==
  /\ Len(calls) < MaxCalls
  /\ IssueUpdate("caller", category, updates, NoEnv)
  /\ last' = NoOp
  /\ UNCHANGED <<storeV, initV, got, writeOrder, modV>>

\* The caller's updateCategory resolves (its write landed) or rejects (its
\* read or its write failed; the error is logged and thrown on).
CallerSettled(i, ok) ==
  /\ i \in CallIds
  /\ calls[i].owner = "caller"
  /\ IF ok THEN calls[i].st = "set" /\ LandWrite(i)
     ELSE calls[i].st \in {"get", "set"} /\ FailCall(i)
  /\ last' = NoOp
  /\ UNCHANGED <<defaultSettings, initV, got, modV>>

\* The updates the callers of the store specification pass.
UpdateInputs ==
  { <<"general", "searchWidth" :> Num(50)>>,
    <<"theme", "mode" :> Str("dark")>> }

\* Documents the store specification starts from: nothing stored (a partial
\* document is then what the first update leaves), or the defaults.
StoreInputs == {Undef, DefaultSettings}

----------------------------------------------------------------------------
(* The open pages *)

\* The pages (browser tabs) that show the extension's new-tab page.
Tabs == {1, 2}

\* An inline style property that has not been set.
Unset == [t |-> "unset", v |-> 0]

\* The inline styles main.js writes: those of #search-container (width,
\* height, radius, opacity), of #search-engine-icon (iconSize, iconMargin) and
\* of #search-input (fontSize).
NoStyle ==
  [width |-> Unset, height |-> Unset, radius |-> Unset, opacity |-> Unset,
   iconSize |-> Unset, iconMargin |-> Unset, fontSize |-> Unset]

\* A page whose App has been constructed and not yet initialised:
\*   pc         where App.init() stands
\*   steps      the steps of App.init() completed so far, in order
\*   loading    document.body has the class 'loading'
\*   bound      the document listeners of bindModuleEvents are registered
\*   listeners  the callbacks registered with storageManager.onChanged
\*   loads      the getCategory reads of the modules that are pending
\*   view       where the window has been sent, and the views it has opened
\*   reads      the files its FileReaders are reading
\*   panel      the sliders of the Settings panel and their debounce timers
NoView == [href |-> Unset, opened |-> <<>>]

\* The sliders of the Settings panel.
Sliders ==
  {"searchWidth", "searchHeight", "searchRadius", "searchOpacity",
   "wallpaperBlur", "wallpaperOverlayOpacity"}

\* Settings as its constructor leaves it: every debounce field is null; no
\* timer of the window is pending and the next timer gets the id 1.  The
\* position of a slider is not read before its first input event.  engines
\* is the list of the panel, which loadSettings fills.
PanelNew ==
  [debounce |-> [s \in Sliders |-> 0], timers |-> {}, nextId |-> 1,
   engines |-> <<>>]

\* A URL the window shows: a string, as a sequence of blocks.
Url(u) == [t |-> "url", v |-> u]

FreshTab ==
  [pc |-> "new", steps |-> <<>>, loading |-> FALSE, isInitialized |-> FALSE,
   bound |-> FALSE, listeners |-> {}, loads |-> {}, theme |-> Null,
   wallpaper |-> Null, search |-> Null, style |-> NoStyle, view |-> NoView,
   reads |-> <<>>, panel |-> PanelNew]

\* No page is open on the model's stage.
NoPages ==
  /\ app = [t \in Tabs |-> FreshTab]
  /\ inbox = [t \in Tabs |-> <<>>]

\* The modules of the single page as their constructors leave them.
InitSingle ==
  /\ engines = <<>>
  /\ defaultEngineId = "google"
  /\ sEngines = <<>>
  /\ editingEngine = NoEngine
  /\ modalOpen = FALSE
  /\ rendered = <<>>
  /\ searchEngines = <<>>
  /\ searchAliased = FALSE
  /\ currentEngineIndex = 0
  /\ tabSwitchEnabled = TRUE
  /\ run = NoRun
  /\ now = 1

InitModules ==
  /\ InitSingle
  /\ NoPages
  /\ last = NoOp

InitStore ==
  /\ store \in StoreInputs
  /\ defaultSettings = DefaultSettings
  /\ initPc = "done"
  /\ initRet = DefaultSettings
  /\ mergeRet = Undef
  /\ persisted = Undef
  /\ got = NoGot
  /\ calls = <<>>
  /\ writeOrder = <<>>
  /\ InitModules

NextStore ==
  \/ \E u \in UpdateInputs : UpdateCategoryCall(u[1], u[2])
  \/ \E i \in CallIds : UpdateCategoryRead(i)
  \/ \E i \in CallIds, ok \in BOOLEAN : CallerSettled(i, ok)
  \/ \E c \in Categories, ok \in BOOLEAN : GetCategory(c, ok)

SpecStore == InitStore /\ [][NextStore]_vars

----------------------------------------------------------------------------
(* The page boots over an arbitrary persisted document *)

InitMerge ==
  /\ store \in PersistedDocs(MaxEntries)
  /\ defaultSettings = DefaultSettings
  /\ initPc = "start"
  /\ initRet = Undef
  /\ mergeRet = Undef
  /\ persisted = Undef
  /\ got = NoGot
  /\ calls = <<>>
  /\ writeOrder = <<>>
  /\ InitModules

NextMerge ==
  \/ \E ok \in BOOLEAN : StorageInitRead(ok)
  \/ \E i \in CallIds, ok \in BOOLEAN : StorageInitWrite(i, ok)
  \/ \E c \in Categories, ok \in BOOLEAN : GetCategory(c, ok)

SpecMerge == InitMerge /\ [][NextMerge]_vars

\* A first run differs from the empty document in at most this many entries.
MaxBootEntries == 1

\* The page boots for the first time (nothing is stored), or over a document
\* an earlier version left.
InitBoot ==
  /\ store \in PersistedDocs(MaxBootEntries)
  /\ defaultSettings = DefaultSettings
  /\ initPc = "start"
  /\ initRet = Undef
  /\ mergeRet = Undef
  /\ persisted = Undef
  /\ got = NoGot
  /\ calls = <<>>
  /\ writeOrder = <<>>
  /\ InitModules

SpecBoot == InitBoot /\ [][NextMerge]_vars

----------------------------------------------------------------------------
(* Engine lists *)

\* A reference to the array a module holds in this.engines.
Ref(name) == [t |-> "ref", v |-> name]

Ids(list) == [i \in 1..Len(list) |-> list[i].id]

IdSet(list) == {list[i].id : i \in 1..Len(list)}

\* list.findIndex((e) => e.id === id), counted from 1; 0 stands for -1.
FindIndex(list, id) ==
  IF \E i \in 1..Len(list) : list[i].id = id
  THEN CHOOSE i \in 1..Len(list) :
         list[i].id = id /\ \A j \in 1..(i - 1) : list[j].id # id
  ELSE 0

\* list.splice(index, 1)
RemoveAt(list, index) ==
  SubSeq(list, 1, index - 1) \o SubSeq(list, index + 1, Len(list))

\* list.splice(index, 0, e): past the end, e is appended.
InsertAt(list, index, e) ==
  LET i == IF index > Len(list) THEN Len(list) + 1 ELSE index
  IN  SubSeq(list, 1, i - 1) \o <<e>> \o SubSeq(list, i, Len(list))

\* list.pop()
Pop(list) == IF list = <<>> THEN list ELSE SubSeq(list, 1, Len(list) - 1)

\* { ...engine, ...updates }
Assign(engine, updates) ==
  [k \in DOMAIN engine \cup DOMAIN updates |->
     IF k \in DOMAIN updates THEN updates[k] ELSE engine[k]]

\* icon || fallback
IconOr(icon, fallback) == IF icon # <<>> THEN icon ELSE fallback

SearchSvg == <<"assets/ui/search.svg">>

\* The list resetToDefaults installs (its icons are the sites' favicons).
RegistryDefaultEngines ==
  << Engine("google", <<"Google">>,
            <<"https://www.google.com/search?q=", "%", "s">>,
            <<"https://www.google.com/favicon.ico">>),
     Engine("bing", <<"Bing">>,
            <<"https://www.bing.com/search?q=", "%", "s">>,
            <<"https://www.bing.com/favicon.ico">>),
     Engine("baidu", <<"Baidu">>,
            <<"https://www.baidu.com/s?wd=", "%", "s">>,
            <<"https://www.baidu.com/favicon.ico">>),
     Engine("duckduckgo", <<"DuckDuckGo">>,
            <<"https://duckduckgo.com/?q=", "%", "s">>,
            <<"https://duckduckgo.com/favicon.ico">>) >>

\* Date.now() takes values up to this bound.
MaxNow == 2

\* `custom_${Date.now()}`
CustomIds == <<"custom_1", "custom_2", "custom_3", "custom_4">>
CustomId(t) == CustomIds[t]

\* Date.now() read at time `now`: the clock may have advanced since.
Clock == {t \in {now, now + 1} : t <= MaxNow}

\* The engine list and the default a document holds.
StoredList(doc) == Prop(Prop(doc, "engines"), "list")
StoredDefault(doc) == Prop(Prop(doc, "engines"), "default")

----------------------------------------------------------------------------
(* Engines: the registry.  No module of the repository calls it; its        *)
(* operations are async functions, and the caller of the model awaits one   *)
(* operation before it calls the next.                                      *)

RegOwners == {"reg.setDefault", "reg.add", "reg.update", "reg.delete",
              "reg.reorder", "reg.reset"}

Pending(i) == calls[i].st \in {"get", "set"}

RegistryIdle == \A i \in CallIds : calls[i].owner \in RegOwners => ~Pending(i)

\* What a registry operation holds across its await: `pre` is the registry
\* when the operation was called, `index` and `old` are its local constants.
RegEnv(index, old) ==
  [pre |-> [engines |-> engines, defaultEngineId |-> defaultEngineId],
   index |-> index, old |-> old]

RegFrame == UNCHANGED <<storeV, initV, got, writeOrder, panelV, searchV, appV>>

\* setDefaultEngine(engineId)
RegSetDefaultEngine(engineId) ==
  /\ Ready
  /\ RegistryIdle
  /\ IF FindIndex(engines, engineId) = 0
     THEN /\ last' = Rejected
          /\ UNCHANGED <<regV, calls>>
     ELSE /\ Len(calls) < MaxOps
          /\ defaultEngineId' = engineId
          /\ IssueUpdate("reg.setDefault", "engines",
                         "default" :> Str(engineId), RegEnv(0, <<>>))
          /\ last' = [op |-> "setDefaultEngine", threw |-> FALSE]
          /\ UNCHANGED engines
  /\ UNCHANGED now
  /\ RegFrame

\* An addEngine that checks the required fields only.
AddEngineRejectsEmptyOnly(engine) == engine.name = <<>> \/ engine.url = <<>>

\* addEngine's checks of the engine passed: a required field is empty, or the
\* url holds no "%s".
AddEngineRejects(engine) ==
  engine.name = <<>> \/ engine.url = <<>> \/ ~Includes(engine.url)

\* addEngine(engine); engine.id and engine.icon may be missing (empty here).
RegAddEngine(engine, t) ==
  /\ Ready
  /\ RegistryIdle
  /\ t \in Clock
  /\ LET id == IF engine.id # "" THEN engine.id ELSE CustomId(t)
         newEngine == Engine(id, engine.name, engine.url,
                             IconOr(engine.icon, SearchSvg))
     IN  IF AddEngineRejects(engine)
         THEN /\ t = now
              /\ last' = [op |-> "addEngine", engine |-> engine, threw |-> TRUE]
              /\ UNCHANGED <<regV, calls, now>>
         ELSE IF FindIndex(engines, id) # 0
         THEN /\ last' = [op |-> "addEngine", engine |-> engine, threw |-> TRUE]
              /\ now' = t
              /\ UNCHANGED <<regV, calls>>
         ELSE /\ Len(calls) < MaxOps
              /\ engines' = Append(engines, newEngine)
              /\ IssueUpdate("reg.add", "engines", "list" :> Ref("engines"),
                             RegEnv(0, <<>>))
              /\ last' = [op |-> "addEngine", engine |-> engine, threw |-> FALSE]
              /\ now' = t
              /\ UNCHANGED defaultEngineId
  /\ RegFrame

\* updateEngine's check of the updates: a url is given, and holds no "%s".
UpdateEngineRejects(updates) ==
  /\ "url" \in DOMAIN updates
  /\ updates.url # <<>>
  /\ ~Includes(updates.url)

\* updateEngine(engineId, updates)
RegUpdateEngine(engineId, updates) ==
  /\ Ready
  /\ RegistryIdle
  /\ LET index == FindIndex(engines, engineId)
     IN  IF index = 0 \/ UpdateEngineRejects(updates)
         THEN /\ last' = Rejected
              /\ UNCHANGED <<regV, calls>>
         ELSE /\ Len(calls) < MaxOps
              /\ engines' = [engines EXCEPT ![index] = Assign(@, updates)]
              /\ IssueUpdate("reg.update", "engines", "list" :> Ref("engines"),
                             RegEnv(index, engines[index]))
              /\ last' = [op |-> "updateEngine", threw |-> FALSE]
              /\ UNCHANGED defaultEngineId
  /\ UNCHANGED now
  /\ RegFrame

\* A deleteEngine that keeps the default it had.
DefaultAfterDeleteKept(default, engineId, remaining) == default

\* this.defaultEngineId once deleteEngine has removed engineId from the list.
DefaultAfterDelete(default, engineId, remaining) ==
  IF default = engineId /\ Len(remaining) > 0 THEN remaining[1].id ELSE default

\* deleteEngine(engineId)
RegDeleteEngine(engineId) ==
  /\ Ready
  /\ RegistryIdle
  /\ LET index == FindIndex(engines, engineId)
         remaining == RemoveAt(engines, index)
         default == DefaultAfterDelete(defaultEngineId, engineId, remaining)
     IN  IF index = 0
         THEN /\ last' = Rejected
              /\ UNCHANGED <<regV, calls>>
         ELSE /\ Len(calls) < MaxOps
              /\ engines' = remaining
              /\ defaultEngineId' = default
              /\ IssueUpdate("reg.delete", "engines",
                             ("list" :> Ref("engines")) @@
                             ("default" :> Str(default)),
                             RegEnv(index, engines[index]))
              /\ last' = [op |-> "deleteEngine", id |-> engineId, threw |-> FALSE]
  /\ UNCHANGED now
  /\ RegFrame

\* reorderEngines(engineIds): every id must name an engine, and there must be
\* as many ids as engines.
RegReorderEngines(engineIds) ==
  /\ Ready
  /\ RegistryIdle
  /\ LET known == \A k \in 1..Len(engineIds) :
                    FindIndex(engines, engineIds[k]) # 0
         newEngines == [k \in 1..Len(engineIds) |->
                          engines[FindIndex(engines, engineIds[k])]]
     IN  IF ~known \/ Len(engineIds) # Len(engines)
         THEN /\ last' = Rejected
              /\ UNCHANGED <<regV, calls>>
         ELSE /\ Len(calls) < MaxOps
              /\ engines' = newEngines
              /\ IssueUpdate("reg.reorder", "engines", "list" :> Ref("engines"),
                             RegEnv(0, engines))
              /\ last' = [op |-> "reorderEngines", threw |-> FALSE,
                          ids |-> engineIds]
              /\ UNCHANGED defaultEngineId
  /\ UNCHANGED now
  /\ RegFrame

\* resetToDefaults()
RegResetToDefaults ==
  /\ Ready
  /\ RegistryIdle
  /\ Len(calls) < MaxOps
  /\ engines' = RegistryDefaultEngines
  /\ defaultEngineId' = "google"
  /\ IssueUpdate("reg.reset", "engines",
                 ("list" :> Ref("engines")) @@ ("default" :> Str("google")),
                 RegEnv(0, engines))
  /\ last' = [op |-> "resetToDefaults", threw |-> FALSE]
  /\ UNCHANGED now
  /\ RegFrame

\* The catch block of the operation that issued call i.
RolledBackEngines(i) ==
  LET env == calls[i].env
  IN  CASE calls[i].owner = "reg.add" -> Pop(engines)
        [] calls[i].owner = "reg.update" ->
             [engines EXCEPT ![env.index] = env.old]
        [] calls[i].owner = "reg.delete" -> InsertAt(engines, env.index, env.old)
        [] calls[i].owner \in {"reg.reorder", "reg.reset"} -> env.old
        [] OTHER -> engines

RolledBackDefault(i) ==
  IF calls[i].owner = "reg.reset" THEN calls[i].env.pre.defaultEngineId
  ELSE defaultEngineId

\* The updateCategory a registry operation awaits resolves (the operation
\* returns) or rejects (its catch block runs and rethrows).
RegSettled(i, ok) ==
  /\ Ready
  /\ i \in CallIds
  /\ calls[i].owner \in RegOwners
  /\ IF ok
     THEN /\ calls[i].st = "set"
          /\ LandWrite(i)
          /\ UNCHANGED regV
     ELSE /\ Pending(i)
          /\ FailCall(i)
          /\ engines' = RolledBackEngines(i)
          /\ defaultEngineId' = RolledBackDefault(i)
  /\ last' = IF ok THEN NoOp ELSE [op |-> "rolled back", call |-> i]
  /\ UNCHANGED <<defaultSettings, initV, got, panelV, searchV, now, appV>>

----------------------------------------------------------------------------
(* Search: the engine list it cycles over *)

\* Search.engines
SearchList == IF searchAliased THEN sEngines ELSE searchEngines

\* The count of the switchEngine calls that moved the index: `start` is the
\* index the first of them found; a call made after as many calls as the
\* list has engines starts the count again.
RunAfter(r, from, len) ==
  IF r.n = 0 \/ r.n >= len THEN [start |-> from, n |-> 1]
  ELSE [r EXCEPT !.n = @ + 1]

\* A switchEngine that looks at the list only.
SwitchReturnsWhenEmpty == Len(SearchList) = 0

\* switchEngine() returns at once.
SwitchReturns == ~tabSwitchEnabled \/ Len(SearchList) = 0

\* An index that moves back from the first engine to the last.
NextIndexBackwards(index, len) == (index + len - 1) % len

\* (this.currentEngineIndex + 1) % this.engines.length
NextIndex(index, len) == (index + 1) % len

\* A saveDefaultEngine that saves the id of the first engine.
CurrentEngineIdFirst(list, index) == list[1].id

\* saveDefaultEngine: the id of this.engines[this.currentEngineIndex].
CurrentEngineId(list, index) == list[index + 1].id

\* The body of switchEngine(); saveDefaultEngine() is called at its end and
\* issues the write of the engine now current, if there is one.
SwitchEngine(via) ==
  IF SwitchReturns
  THEN /\ last' = [op |-> "switchEngine", via |-> via, acted |-> FALSE]
       /\ UNCHANGED <<calls, currentEngineIndex, run>>
  ELSE LET next == NextIndex(currentEngineIndex, Len(SearchList))
       IN  /\ currentEngineIndex' = next
           /\ IF next + 1 \in DOMAIN SearchList
              THEN IssueUpdate("search.save", "engines",
                               "default" :> Str(CurrentEngineId(SearchList, next)),
                               NoEnv)
              ELSE UNCHANGED calls
           /\ run' = RunAfter(run, currentEngineIndex, Len(SearchList))
           /\ last' = [op |-> "switchEngine", via |-> "call", acted |-> TRUE]

SearchFrame ==
  UNCHANGED <<storeV, initV, got, writeOrder, regV, panelV, now, appV>>

\* switchEngine() is called.
SearchSwitchEngine ==
  /\ Ready
  /\ SwitchEngine("call")
  /\ UNCHANGED <<searchEngines, searchAliased, tabSwitchEnabled>>
  /\ SearchFrame

\* The keydown handler of the search input, for the Tab key: switchEngine()
\* is called if tab switching is enabled; otherwise the key is left to the
\* browser.
SearchTabKey ==
  /\ Ready
  /\ IF tabSwitchEnabled THEN SwitchEngine("Tab")
     ELSE /\ last' = [op |-> "keydown", via |-> "Tab", acted |-> FALSE]
          /\ UNCHANGED <<calls, currentEngineIndex, run>>
  /\ UNCHANGED <<searchEngines, searchAliased, tabSwitchEnabled>>
  /\ SearchFrame

\* updateSettings({tabSwitch: enabled})
SearchUpdateSettings(enabled) ==
  /\ Ready
  /\ tabSwitchEnabled' = enabled
  /\ last' = NoOp
  /\ UNCHANGED <<calls, searchEngines, searchAliased, currentEngineIndex, run>>
  /\ SearchFrame

\* saveDefaultEngine's updateCategory resolves, or rejects and is logged.
SearchSaveSettled(i, ok) ==
  /\ Ready
  /\ i \in CallIds
  /\ calls[i].owner = "search.save"
  /\ IF ok THEN calls[i].st = "set" /\ LandWrite(i)
     ELSE Pending(i) /\ FailCall(i)
  /\ last' = NoOp
  /\ UNCHANGED <<defaultSettings, initV, got, modV>>

\* currentEngineIndex after updateEngines(list).
IndexAfterUpdate(list) ==
  IF currentEngineIndex >= Len(list) THEN 0 ELSE currentEngineIndex

\* The 'enginesUpdated' handler of main.js: search.updateEngines(e.detail),
\* where e.detail is the array Settings.engines.
EnginesUpdated ==
  /\ searchAliased' = TRUE
  /\ searchEngines' = <<>>
  /\ currentEngineIndex' = IndexAfterUpdate(sEngines)
  /\ run' = NoRun
  /\ UNCHANGED tabSwitchEnabled

----------------------------------------------------------------------------
(* Settings: the engine list of the panel *)

\* The pending calls that were passed the array Settings.engines keep that
\* array when Settings.engines is assigned a new one.
Frozen(cs) ==
  [j \in DOMAIN cs |->
     [cs[j] EXCEPT !.updates =
        [k \in DOMAIN @ |->
           IF @[k].t = "ref" /\ @[k].v = "settings" THEN Arr(sEngines)
           ELSE @[k]]]]

PanelFrame == UNCHANGED <<storeV, initV, got, writeOrder, regV, appV>>

\* The add button: openEngineModal().  The modal lies over the panel while it
\* is displayed, so the add and edit buttons are clicked while it is closed.
PanelOpenEngineModal ==
  /\ Ready
  /\ ~modalOpen
  /\ editingEngine' = NoEngine
  /\ modalOpen' = TRUE
  /\ last' = NoOp
  /\ UNCHANGED <<calls, sEngines, rendered, searchV, now>>
  /\ PanelFrame

\* An edit button of the rendered list: editEngine(engineId)
PanelEditEngine(engineId) ==
  /\ Ready
  /\ ~modalOpen
  /\ engineId \in IdSet(rendered)
  /\ IF FindIndex(sEngines, engineId) # 0
     THEN editingEngine' = engineId /\ modalOpen' = TRUE
     ELSE UNCHANGED <<editingEngine, modalOpen>>
  /\ last' = NoOp
  /\ UNCHANGED <<calls, sEngines, rendered, searchV, now>>
  /\ PanelFrame

\* The close and cancel buttons of the modal: closeEngineModal()
PanelCloseEngineModal ==
  /\ Ready
  /\ modalOpen
  /\ editingEngine' = NoEngine
  /\ modalOpen' = FALSE
  /\ last' = NoOp
  /\ UNCHANGED <<calls, sEngines, rendered, searchV, now>>
  /\ PanelFrame

\* saveEngine's checks of the trimmed fields.
SaveEngineRejects(name, url) == name = <<>> \/ url = <<>> \/ ~Includes(url)

\* The save button of the modal: saveEngine(), up to its await.  The fields
\* hold what the user typed.
PanelSaveEngine(rawName, rawUrl, rawIcon, t) ==
  /\ Ready
  /\ modalOpen
  /\ t \in Clock
  /\ LET name == Trim(rawName)
         url == Trim(rawUrl)
         icon == Trim(rawIcon)
         index == FindIndex(sEngines, editingEngine)
         adding == editingEngine = NoEngine
         me == [op |-> "saveEngine", adding |-> adding, name |-> rawName,
                url |-> rawUrl, refused |-> FALSE]
     IN  IF SaveEngineRejects(name, url)
         THEN /\ t = now
              /\ last' = [me EXCEPT !.refused = TRUE]
              /\ UNCHANGED <<calls, sEngines, now>>
         ELSE /\ Len(calls) < MaxCalls
              /\ IF adding
                 THEN /\ sEngines' =
                           Append(sEngines, Engine(CustomId(t), name, url,
                                                   IconOr(icon, SearchSvg)))
                      /\ now' = t
                 ELSE /\ t = now
                      /\ sEngines' =
                           IF index = 0 THEN sEngines
                           ELSE [sEngines EXCEPT ![index] =
                                   Assign(@, [name |-> name, url |-> url,
                                              icon |-> IconOr(icon, @.icon)])]
                      /\ UNCHANGED now
              /\ IssueUpdate("panel.save", "engines",
                             "list" :> Ref("settings"), NoEnv)
              /\ last' = me
  /\ UNCHANGED <<editingEngine, modalOpen, rendered, searchV>>
  /\ PanelFrame

\* saveEngine after its await: the list is rendered, the modal closed and
\* 'enginesUpdated' emitted; a failure is logged and alerted.
PanelSaveSettled(i, ok) ==
  /\ Ready
  /\ i \in CallIds
  /\ calls[i].owner = "panel.save"
  /\ IF ok
     THEN /\ calls[i].st = "set"
          /\ LandWrite(i)
          /\ rendered' = sEngines
          /\ modalOpen' = FALSE
          /\ editingEngine' = NoEngine
          /\ EnginesUpdated
     ELSE /\ Pending(i)
          /\ FailCall(i)
          /\ UNCHANGED <<editingEngine, modalOpen, rendered, searchV>>
  /\ last' = NoOp
  /\ UNCHANGED <<defaultSettings, initV, got, regV, sEngines, now, appV>>

\* A delete button of the rendered list: deleteEngine(engineId), up to its
\* await; `confirmed` is the answer to confirm().
PanelDeleteEngine(engineId, confirmed) ==
  /\ Ready
  /\ engineId \in IdSet(rendered)
  /\ IF ~confirmed
     THEN /\ last' = NoOp
          /\ UNCHANGED <<calls, sEngines, searchV>>
     ELSE /\ Len(calls) < MaxCalls
          /\ sEngines' = SelectSeq(sEngines, LAMBDA e : e.id # engineId)
          /\ calls' = Issued(Frozen(calls), "panel.delete", "engines",
                             "list" :> Ref("settings"), NoEnv)
          /\ searchEngines' = SearchList
          /\ searchAliased' = FALSE
          /\ last' = NoOp
          /\ UNCHANGED <<currentEngineIndex, tabSwitchEnabled, run>>
  /\ UNCHANGED <<editingEngine, modalOpen, rendered, now>>
  /\ PanelFrame

\* deleteEngine after its await.
PanelDeleteSettled(i, ok) ==
  /\ Ready
  /\ i \in CallIds
  /\ calls[i].owner = "panel.delete"
  /\ IF ok
     THEN /\ calls[i].st = "set"
          /\ LandWrite(i)
          /\ rendered' = sEngines
          /\ EnginesUpdated
     ELSE /\ Pending(i)
          /\ FailCall(i)
          /\ UNCHANGED <<rendered, searchV>>
  /\ last' = NoOp
  /\ UNCHANGED <<defaultSettings, initV, got, regV, sEngines, editingEngine,
                 modalOpen, now, appV>>

\* The default-engine select changes: updateDefaultEngine(engineId), up to
\* its await; engineId is the value of an option of the select.
PanelUpdateDefaultEngine(engineId) ==
  /\ Ready
  /\ engineId \in IdSet(rendered)
  /\ Len(calls) < MaxCalls
  /\ IssueUpdate("panel.default", "engines", "default" :> Str(engineId),
                 [NoEnv EXCEPT !.old = engineId])
  /\ last' = NoOp
  /\ UNCHANGED <<panelV, searchV, now>>
  /\ PanelFrame

\* updateDefaultEngine after its await: 'defaultEngineChanged' is emitted and
\* main.js calls search.setEngine(engineId), which runs up to the await of
\* saveDefaultEngine (nothing happens for an id Search does not hold).
PanelDefaultSettled(i, ok) ==
  /\ Ready
  /\ i \in CallIds
  /\ calls[i].owner = "panel.default"
  /\ LET index == FindIndex(SearchList, calls[i].env.old)
     IN  IF ok
         THEN /\ calls[i].st = "set"
              /\ LandStore(i)
              /\ IF index # 0
                 THEN /\ currentEngineIndex' = index - 1
                      /\ run' = NoRun
                      /\ calls' = Issued(Landed(i), "search.save", "engines",
                                         "default" :> Str(SearchList[index].id),
                                         NoEnv)
                 ELSE /\ calls' = Landed(i)
                      /\ UNCHANGED <<currentEngineIndex, run>>
         ELSE /\ Pending(i)
              /\ FailCall(i)
              /\ UNCHANGED <<currentEngineIndex, run>>
  /\ last' = NoOp
  /\ UNCHANGED <<defaultSettings, initV, got, regV, panelV, now, appV,
                 searchEngines, searchAliased, tabSwitchEnabled>>

----------------------------------------------------------------------------
(* The page with its modules loaded *)

UrlInputs == {<<>>, <<"https://example.org/?q=">>,
              <<"https://example.org/?q=", "%", "s">>}

GoodUrl == <<"https://example.org/?q=", "%", "s">>

\* Engines passed to addEngine: one without id and icon, one with the id of
\* a default engine, and ones that miss a field or the "%s".
AddInputs ==
  { Engine("", <<"Mine">>, GoodUrl, <<>>),
    Engine("google", <<"Mine">>, GoodUrl, <<>>),
    Engine("", <<>>, GoodUrl, <<>>),
    Engine("", <<"Mine">>, <<>>, <<>>),
    Engine("", <<"Mine">>, <<"https://example.org/?q=">>, <<>>) }

\* Updates passed to updateEngine.
UpdateEngineInputs == {("url" :> u) : u \in UrlInputs} \cup {"id" :> "bing"}

\* Ids passed to the registry: the ids of its first and of its last engine,
\* and an id it does not hold.
IdInputs ==
  {engines[i].id : i \in {1, Len(engines)} \cap DOMAIN engines} \cup {"nosuch"}

Reverse(s) == [k \in 1..Len(s) |-> s[Len(s) + 1 - k]]

\* Id lists passed to reorderEngines: the ids reversed, the first id as many
\* times as there are engines, the ids but the last, and an unknown id.
ReorderInputs ==
  LET ids == Ids(engines)
  IN  {Reverse(ids), [k \in 1..Len(ids) |-> ids[1]], Pop(ids), <<"nosuch">>}

\* What the user types into the name, url and icon fields of the modal.
FieldInputs ==
  { <<<<"Mine">>, <<" ", "https://example.org/?q=", "%", "s", " ">>, <<" ">>>>,
    <<<<"Mine">>, GoodUrl, <<"mine.ico">>>>,
    <<<<"Mine">>, <<" ">>, <<>>>>,
    <<<<"Mine">>, <<"https://example.org/?q=">>, <<>>>> }

\* Documents the page boots over: the defaults, and the defaults with all
\* engines but the default one deleted.
EngineStores ==
  {DefaultSettings,
   PutKey(DefaultSettings, "engines", "list",
          Arr(SubSeq(StorageDefaultEngines, 1, 1)))}

\* App.init is over: storage holds a full document and every module has
\* loaded its engine list from it (Settings a copy, drawn by
\* renderEnginesList).
InitEngines ==
  /\ store \in EngineStores
  /\ defaultSettings = DefaultSettings
  /\ initPc = "done"
  /\ initRet = DefaultSettings
  /\ mergeRet = Undef
  /\ persisted = Undef
  /\ got = NoGot
  /\ calls = <<>>
  /\ writeOrder = <<>>
  /\ engines = StoredList(store).v
  /\ defaultEngineId = StoredDefault(store).v
  /\ sEngines = StoredList(store).v
  /\ editingEngine = NoEngine
  /\ modalOpen = FALSE
  /\ rendered = sEngines
  /\ searchEngines = StoredList(store).v
  /\ searchAliased = FALSE
  /\ currentEngineIndex = FindIndex(searchEngines, StoredDefault(store).v) - 1
  /\ tabSwitchEnabled = TRUE
  /\ run = NoRun
  /\ NoPages
  /\ now = 1
  /\ last = NoOp

\* Ids of the buttons clicked and of the option selected in the panel: those
\* of the first and of the last engine drawn.
PanelIds == {rendered[i].id : i \in {1, Len(rendered)} \cap DOMAIN rendered}

\* The Engines registry, driven by a caller.
NextRegistry ==
  \/ \E id \in IdInputs : RegSetDefaultEngine(id)
  \/ \E e \in AddInputs, t \in Clock : RegAddEngine(e, t)
  \/ \E id \in IdInputs, u \in UpdateEngineInputs : RegUpdateEngine(id, u)
  \/ \E id \in IdInputs : RegDeleteEngine(id)
  \/ \E ids \in ReorderInputs : RegReorderEngines(ids)
  \/ RegResetToDefaults
  \/ \E i \in CallIds, ok \in BOOLEAN : RegSettled(i, ok)
  \/ \E i \in CallIds : UpdateCategoryRead(i)
  \/ CallerResumes

SpecRegistry == InitEngines /\ [][NextRegistry]_vars

\* The page as main.js builds it: the settings panel and the search box.
NextPage ==
  \/ Len(calls) < MaxCalls /\ SearchSwitchEngine
  \/ \E i \in CallIds, ok \in BOOLEAN : SearchSaveSettled(i, ok)
  \/ PanelOpenEngineModal
  \/ \E id \in PanelIds : PanelEditEngine(id)
  \/ PanelCloseEngineModal
  \/ \E f \in FieldInputs, t \in Clock : PanelSaveEngine(f[1], f[2], f[3], t)
  \/ \E i \in CallIds, ok \in BOOLEAN : PanelSaveSettled(i, ok)
  \/ \E id \in PanelIds, c \in BOOLEAN : PanelDeleteEngine(id, c)
  \/ \E i \in CallIds, ok \in BOOLEAN : PanelDeleteSettled(i, ok)
  \/ \E id \in PanelIds : PanelUpdateDefaultEngine(id)
  \/ \E i \in CallIds, ok \in BOOLEAN : PanelDefaultSettled(i, ok)
  \/ \E i \in CallIds : UpdateCategoryRead(i)
  \/ CallerResumes

SpecPage == InitEngines /\ [][NextPage]_vars

\* The two ways an engine is added: Engines.addEngine and the modal of the
\* settings panel, with MaxOps accepted additions in all.
NextAdd ==
  \/ \E e \in AddInputs, t \in Clock : RegAddEngine(e, t)
  \/ \E i \in CallIds, ok \in BOOLEAN : RegSettled(i, ok)
  \/ PanelOpenEngineModal
  \/ PanelCloseEngineModal
  \/ \E f \in FieldInputs, t \in Clock :
       /\ Len(calls) < MaxOps \/ SaveEngineRejects(Trim(f[1]), Trim(f[2]))
       /\ PanelSaveEngine(f[1], f[2], f[3], t)
  \/ \E i \in CallIds, ok \in BOOLEAN : PanelSaveSettled(i, ok)
  \/ \E i \in CallIds : UpdateCategoryRead(i)
  \/ CallerResumes

SpecAdd == InitEngines /\ [][NextAdd]_vars

----------------------------------------------------------------------------
(* The search box alone: the Tab key cycles through the engines *)

\* At most this many switchEngine calls move the index in one behaviour.
MaxSwitches == 3

\* The lists Search may hold: the first engines of the default list.
CycleLists == {SubSeq(StorageDefaultEngines, 1, n) : n \in 0..3}

\* Documents the search box boots over: a list and a default (the first
\* engine, or the third, which the shorter lists lack).
CycleStores ==
  {PutKey(PutKey(DefaultSettings, "engines", "list", Arr(l)),
          "engines", "default", Str(d)) :
     l \in CycleLists, d \in {"google", "baidu"}}

\* loadEngineSettings: the index of the default engine, 0 if no engine has
\* the default's id.
LoadedIndex(list, id) ==
  IF FindIndex(list, id) = 0 THEN 0 ELSE FindIndex(list, id) - 1

\* Search has loaded its settings from the stored document.
InitCycle ==
  /\ store \in CycleStores
  /\ defaultSettings = DefaultSettings
  /\ initPc = "done"
  /\ initRet = DefaultSettings
  /\ mergeRet = Undef
  /\ persisted = Undef
  /\ got = NoGot
  /\ calls = <<>>
  /\ writeOrder = <<>>
  /\ engines = <<>>
  /\ defaultEngineId = "google"
  /\ sEngines = <<>>
  /\ editingEngine = NoEngine
  /\ modalOpen = FALSE
  /\ rendered = <<>>
  /\ searchEngines = StoredList(store).v
  /\ searchAliased = FALSE
  /\ currentEngineIndex = LoadedIndex(searchEngines, StoredDefault(store).v)
  /\ tabSwitchEnabled = (Prop(Prop(store, "general"), "tabSwitch") # Bool(FALSE))
  /\ run = NoRun
  /\ NoPages
  /\ now = 1
  /\ last = NoOp

NextCycle ==
  \/ (SwitchReturns \/ Len(calls) < MaxSwitches) /\ SearchSwitchEngine
  \/ (SwitchReturns \/ Len(calls) < MaxSwitches) /\ SearchTabKey
  \/ \E b \in BOOLEAN : SearchUpdateSettings(b)
  \/ \E i \in CallIds, ok \in BOOLEAN : SearchSaveSettled(i, ok)
  \/ \E i \in CallIds : UpdateCategoryRead(i)

SpecCycle == InitCycle /\ [][NextCycle]_vars

----------------------------------------------------------------------------
(* Claims about the merge and about init *)

\* doc holds every key of defaults, at every nesting level.
RECURSIVE HasDefaultKeys(_, _)
HasDefaultKeys(doc, defaults) ==
  /\ doc.t = "obj"
  /\ \A k \in DOMAIN defaults.v :
       /\ k \in DOMAIN doc.v
       /\ defaults.v[k].t = "obj" => HasDefaultKeys(doc.v[k], defaults.v[k])

\* doc holds the value of data wherever data holds one (an array as a whole).
RECURSIVE UsesPersisted(_, _)
UsesPersisted(doc, data) ==
  \A k \in DOMAIN data.v :
    IF data.v[k].t = "obj"
    THEN Prop(doc, k).t = "obj" /\ UsesPersisted(Prop(doc, k), data.v[k])
    ELSE Prop(doc, k) = data.v[k]

\* A document that only lacks categories or keys: what it holds has the
\* default's shape.
OnlyLacksKeys(doc) ==
  /\ doc.t = "obj"
  /\ \A c \in DOMAIN doc.v :
       /\ c \in Categories
       /\ doc.v[c].t = "obj"
       /\ \A k \in DOMAIN doc.v[c].v :
            /\ k \in DefaultKeys(c)
            /\ doc.v[c].v[k].t = DefaultSettings.v[c].v[k].t

\* A document made of default keys only, whatever the values.
DefaultKeysOnly(doc) ==
  /\ doc.t = "obj"
  /\ \A c \in DOMAIN doc.v :
       /\ c \in Categories
       /\ \A k \in Keys(doc.v[c]) :
            k \in DefaultKeys(c) /\ Keys(doc.v[c].v[k]) = {}

\* C1 (as claimed): for every persisted document made of default keys,
\* whatever its values (null, a scalar where the default has an object,
\* arrays), mergeWithDefaults returns a document that holds every default key
\* at every level and the persisted value wherever there is one (arrays
\* whole), and leaves defaultSettings as it was.
C1_MergeKeepsEveryDefaultKey ==
  (mergeRet.t # "undef" /\ DefaultKeysOnly(persisted)) =>
    /\ HasDefaultKeys(mergeRet, DefaultSettings)
    /\ UsesPersisted(mergeRet, persisted)
    /\ defaultSettings = DefaultSettings

\* C2 (as claimed): over a persisted document that only lacks categories or
\* keys, every getCategory made once init() has completed returns a slice
\* that holds every default key of the category.
C2_GetCategoryHasDefaultKeys ==
  (got.cat # "none" /\ got.afterInit /\ OnlyLacksKeys(store)) =>
    HasDefaultKeys(got.val, DefaultSettings.v[got.cat])

----------------------------------------------------------------------------
(* Claims about updateCategory *)

LastWrite == writeOrder[Len(writeOrder)]

\* The caller's call i resolved after a read-modify-write that no other write
\* cut into, and the last getCategory read its category after that, with no
\* write in between.
UpdatedThenGot(i) ==
  /\ calls[i].owner = "caller"
  /\ calls[i].st = "ok"
  /\ calls[i].clean
  /\ LastWrite = i
  /\ got.cat = calls[i].cat
  /\ got.readOk
  /\ got.writes = Len(writeOrder)

\* The category of call i as the store held it before the update.
SliceBefore(i) == Prop(calls[i].read, calls[i].cat)

\* C3: with no concurrent write, updateCategory(cat, {k: v}) followed by
\* getCategory(cat) returns a slice in which k is v and every other key the
\* category held before has its previous value.
C3_UpdateThenGet ==
  \A i \in CallIds :
    UpdatedThenGot(i) =>
      /\ \A k \in DOMAIN calls[i].updates :
           Prop(got.val, k) = calls[i].updates[k]
      /\ \A k \in Keys(SliceBefore(i)) \ DOMAIN calls[i].updates :
           Prop(got.val, k) = SliceBefore(i).v[k]

\* C3's case: an update of a category that held other keys, then the read.
C3_Witness ==
  \E i \in CallIds :
    /\ UpdatedThenGot(i)
    /\ Keys(SliceBefore(i)) \ DOMAIN calls[i].updates # {}

\* Calls i and j of updateCategory, on different categories, both resolved;
\* both had read before either write landed, and i's write landed first.
Overlapped(i, j) ==
  /\ i # j
  /\ calls[i].owner = "caller" /\ calls[j].owner = "caller"
  /\ calls[i].st = "ok" /\ calls[j].st = "ok"
  /\ calls[i].cat # calls[j].cat
  /\ j \in calls[i].raced

\* C4: the stored document is always the whole document of the last write
\* that landed; so when two updateCategory calls on different categories
\* overlap and both resolve, the category of the one that landed first is
\* left as the other call had read it.
C4_LastWriterWins ==
  writeOrder # <<>> =>
    /\ store = calls[LastWrite].doc
    /\ \A i \in CallIds :
         Overlapped(i, LastWrite) =>
           Prop(store, calls[i].cat) = Prop(calls[LastWrite].read, calls[i].cat)

\* C4's case: both calls reported success and the store lacks the update of
\* the one whose write landed first.
C4_Witness ==
  \E i, j \in CallIds :
    /\ Overlapped(i, j)
    /\ LastWrite = j
    /\ \E k \in DOMAIN calls[i].updates :
         Prop(Prop(store, calls[i].cat), k) # calls[i].updates[k]

----------------------------------------------------------------------------
(* Claims about the engine list *)

\* C5: whenever the stored engines.list is not empty, the stored
\* engines.default is the id of one of its entries.
C5_StoredDefaultIsListed ==
  LET list == StoredList(store)
      default == StoredDefault(store)
  IN  (list.t = "arr" /\ list.v # <<>>) =>
        (default.t = "str" /\ default.v \in IdSet(list.v))

\* A deleteEngine call whose write landed, with nothing issued since.
DeleteLanded(i) ==
  /\ i = Len(calls)
  /\ calls[i].owner = "reg.delete"
  /\ calls[i].st = "ok"

\* C6: a deleteEngine(id) that finds id removes it; if id was the default
\* and engines remain, the first of them becomes the default, otherwise the
\* default stays; one updateCategory is issued, with the new list and the
\* new default, and its one write stores both.
C6_DeleteReassignsDefault ==
  [][ /\ last'.op = "deleteEngine" =>
           LET index == FindIndex(engines, last'.id)
               issued == calls'[Len(calls')]
           IN  /\ index # 0
               /\ engines' = RemoveAt(engines, index)
               /\ defaultEngineId' =
                    IF defaultEngineId = last'.id /\ engines' # <<>>
                    THEN engines'[1].id ELSE defaultEngineId
               /\ Len(calls') = Len(calls) + 1
               /\ issued.cat = "engines"
               /\ DOMAIN issued.updates = {"list", "default"}
               /\ issued.updates["list"] = Ref("engines")
               /\ issued.updates["default"] = Str(defaultEngineId')
               /\ store' = store
      /\ \A i \in CallIds :
           (calls[i].owner = "reg.delete" /\ calls'[i].st = "ok"
              /\ calls[i].st # "ok") =>
             /\ StoredList(store') = Arr(engines)
             /\ StoredDefault(store') = Str(defaultEngineId)
             /\ Len(writeOrder') = Len(writeOrder) + 1
             /\ engines' = engines
             /\ defaultEngineId' = defaultEngineId ]_vars

\* C6's case: the default engine was deleted, engines remain, the first of
\* them is the default and the write has landed.
C6_Witness ==
  \E i \in CallIds :
    /\ DeleteLanded(i)
    /\ calls[i].env.pre.defaultEngineId = calls[i].env.old.id
    /\ engines # <<>>
    /\ defaultEngineId = engines[1].id
    /\ defaultEngineId # calls[i].env.pre.defaultEngineId
    /\ StoredDefault(store) = Str(defaultEngineId)

\* The step changed no engine list, issued no storage call and wrote nothing.
NothingChanged ==
  /\ engines' = engines
  /\ sEngines' = sEngines
  /\ store' = store
  /\ calls' = calls
  /\ writeOrder' = writeOrder

\* C7: adding an engine whose url holds no "%s" fails before any change:
\* addEngine throws and the panel's saveEngine refuses, the engine lists and
\* the stored document are as before and no storage call is issued.
C7_AddWithoutPlaceholderFails ==
  [][ /\ (last'.op = "addEngine" /\ ~Includes(last'.engine.url)) =>
           (last'.threw /\ NothingChanged)
      /\ (last'.op = "saveEngine" /\ last'.adding /\ ~Includes(last'.url)) =>
           (last'.refused /\ NothingChanged) ]_vars

\* C7's case: addEngine was called with a name and a url that is not empty
\* and holds no "%s", after an addition had been stored.
C7_Witness ==
  /\ last.op = "addEngine"
  /\ last.threw
  /\ last.engine.name # <<>>
  /\ last.engine.url # <<>>
  /\ ~Includes(last.engine.url)
  /\ writeOrder # <<>>

\* C8: no two entries of the registry's engine list have the same id.
C8_IdsUnique ==
  \A i, j \in 1..Len(engines) : i # j => engines[i].id # engines[j].id

\* C9: every url of the registry's engine list holds the "%s" placeholder.
C9_EveryUrlHasPlaceholder ==
  \A i \in 1..Len(engines) : Includes(engines[i].url)

\* C10: when the write of a registry operation has failed and the operation
\* has rejected, the engine list and defaultEngineId are what they were when
\* the operation was called.
C10_RollbackRestoresRegistry ==
  (last.op = "rolled back" /\ calls[last.call].st = "writeFailed") =>
    /\ engines = calls[last.call].env.pre.engines
    /\ defaultEngineId = calls[last.call].env.pre.defaultEngineId

----------------------------------------------------------------------------
(* Claims about engine cycling *)

\* switchEngine or the Tab handler was called in a state where switching is
\* enabled and the list holds engines.
Cycled ==
  /\ last'.op \in {"switchEngine", "keydown"}
  /\ tabSwitchEnabled
  /\ Len(SearchList) >= 1

\* C11: with tab switching enabled and a list of N >= 1 engines, a
\* switchEngine at index i (0 <= i < N) moves the index to i + 1, or to 0 from
\* N - 1; the N-th call of a run of calls over the same list leaves the index
\* where the first call of the run found it.
C11_SwitchEngineCycles ==
  [][ (Cycled /\ currentEngineIndex \in 0..(Len(SearchList) - 1)) =>
        /\ currentEngineIndex' =
             IF currentEngineIndex = Len(SearchList) - 1 THEN 0
             ELSE currentEngineIndex + 1
        /\ SearchList' = SearchList
        /\ run'.n \in 1..Len(SearchList)
        /\ run'.n = Len(SearchList) => currentEngineIndex' = run'.start ]_vars

\* C11's case: three calls over a list of three engines, begun at the last
\* index, have brought the index back to it.
C11_Witness ==
  /\ Len(SearchList) = 3
  /\ run = [start |-> 2, n |-> 3]
  /\ currentEngineIndex = 2
  /\ last.op = "switchEngine"

\* C12: every cycle with tab switching enabled and a non-empty list calls
\* updateCategory('engines', {default: id}) with the id of the engine the
\* index now selects; when the write of such a call lands, the stored
\* engines.default is that id.
C12_CyclePersistsDefault ==
  [][ /\ Cycled =>
           LET issued == calls'[Len(calls')]
           IN  /\ last'.acted
               /\ Len(calls') = Len(calls) + 1
               /\ issued.st = "get"
               /\ issued.cat = "engines"
               /\ DOMAIN issued.updates = {"default"}
               /\ issued.updates["default"] =
                    Str(SearchList[currentEngineIndex' + 1].id)
      /\ \A i \in CallIds :
           (calls[i].owner = "search.save" /\ calls[i].st = "set"
              /\ calls'[i].st = "ok") =>
             StoredDefault(store') = calls[i].updates["default"] ]_vars

\* C12's case: over a list of three engines one cycle from index 2 selected
\* the first engine, and the write has stored its id as the default.
C12_Witness ==
  /\ Len(SearchList) = 3
  /\ run = [start |-> 2, n |-> 1]
  /\ currentEngineIndex = 0
  /\ Len(calls) = 1
  /\ calls[1].st = "ok"
  /\ calls[1].read # Undef
  /\ StoredDefault(calls[1].read) = Str(SearchList[3].id)
  /\ StoredDefault(store) = Str(SearchList[1].id)

\* C13: a switchEngine made with an empty list or with tab switching
\* disabled (and a Tab key pressed then) changes nothing: the index, the
\* list, the storage calls and the stored document are as before.
C13_SwitchIsNoOp ==
  [][ (last'.op \in {"switchEngine", "keydown"}
         /\ (Len(SearchList) = 0 \/ ~tabSwitchEnabled)) =>
        /\ ~last'.acted
        /\ currentEngineIndex' = currentEngineIndex
        /\ SearchList' = SearchList
        /\ tabSwitchEnabled' = tabSwitchEnabled
        /\ calls' = calls
        /\ store' = store
        /\ writeOrder' = writeOrder ]_vars

\* C13's case: switchEngine was called with tab switching disabled over a
\* list of engines, while a write of an earlier cycle was pending.
C13_Witness ==
  /\ last.op = "switchEngine"
  /\ ~last.acted
  /\ ~tabSwitchEnabled
  /\ Len(SearchList) = 3
  /\ \E i \in CallIds : Pending(i)

----------------------------------------------------------------------------
(* Claims about the first run and about failed reads *)

\* init() has completed over a store that held nothing: it wrote the
\* defaults (a call exists), or its read failed and the store is still empty.
FirstRunDone ==
  /\ initPc = "done"
  /\ calls # <<>> \/ store = Undef

\* C18: when init() has completed over an empty store, it has returned the
\* defaults; if its write landed, the stored document is the full default
\* document; and whether the write landed or failed, every getCategory(c)
\* returns the default slice of c.
C18_FirstRunStoresDefaults ==
  FirstRunDone =>
    /\ initRet = DefaultSettings
    /\ (calls # <<>> /\ calls[1].st = "ok") => store = DefaultSettings
    /\ (calls # <<>> /\ calls[1].st # "ok") =>
         (calls[1].st = "writeFailed" /\ store = Undef)
    /\ got.cat # "none" => got.val = DefaultSettings.v[got.cat]

\* C18's case: the first run wrote the defaults and getCategory('theme')
\* returned {mode: 'system'}.
C18_Witness ==
  /\ FirstRunDone
  /\ calls # <<>>
  /\ calls[1].st = "ok"
  /\ store = DefaultSettings
  /\ got.cat = "theme"
  /\ got.readOk
  /\ got.val = Obj("mode" :> Str("system"))

\* C20: a getCategory whose read failed returns the default slice of the
\* category; no getCategory raises an error.
C20_GetCategoryFallsBack ==
  got.cat # "none" =>
    /\ got.val.t # "threw"
    /\ ~got.readOk => got.val = DefaultSettings.v[got.cat]

\* C20's case: the read failed while the store held a theme other than the
\* default one, and the default slice was returned.
C20_Witness ==
  /\ got.cat = "theme"
  /\ ~got.readOk
  /\ Prop(store, "theme") = Obj("mode" :> Str("dark"))
  /\ got.val = Obj("mode" :> Str("system"))

----------------------------------------------------------------------------
(* The App coordinator: what it writes into the page *)

\* The value of a style property set to `${n}px`.
Px(n) == [t |-> "px", v |-> n]

\* `${x}px` is a length the style accepts: x is a number that is not
\* negative.  ("nullpx", "truepx", "undefinedpx" and the like are dropped by
\* the style, and the strings of the model's documents are not numerals.)
ValidLength(x) == x.t = "num" /\ x.v >= 0

\* The style once `property` was assigned `${x}px`: an assignment the style
\* does not accept leaves the property as it was.
SetPx(style, property, x) ==
  IF ValidLength(x) THEN [style EXCEPT ![property] = Px(x.v)] ELSE style

\* height * factor is a number: height is a number, null (0) or a boolean.
IsNumeric(x) == x.t \in {"num", "null", "bool"}

\* Number(x) for such an x.
ToNumber(x) ==
  CASE x.t = "num" -> x.v
    [] x.t = "bool" -> IF x.v THEN 1 ELSE 0
    [] OTHER -> 0

\* The integer part of num / den, a rounding the code does not make.
MathTrunc(num, den) == num \div den

\* Math.round(num / den) for den > 0: the nearest integer, a tie going up.
MathRound(num, den) == (2 * num + den) \div (2 * den)

\* updateSearchWidth(width)
updateSearchWidth(style, width) == SetPx(style, "width", width)

\* The factors of updateSearchHeight, in hundredths: 0.4, 0.3 and 0.32.
IconSizeFactor == 40
IconMarginFactor == 30
FontSizeFactor == 32

\* Math.round(height * 0.4) and its like, as a number value; the product is
\* NaN when height is no number, and `NaNpx` is no length.
Scaled(height, factor) ==
  IF IsNumeric(height) THEN Num(MathRound(ToNumber(height) * factor, 100))
  ELSE Undef

\* updateSearchHeight(height): the container's height, then the icon's width
\* and height (iconSize), the icon's margin and the input's font size.
updateSearchHeight(style, height) ==
  LET s1 == SetPx(style, "height", height)
      s2 == SetPx(s1, "iconSize", Scaled(height, IconSizeFactor))
      s3 == SetPx(s2, "iconMargin", Scaled(height, IconMarginFactor))
  IN  SetPx(s3, "fontSize", Scaled(height, FontSizeFactor))

\* updateSearchRadius(radius)
updateSearchRadius(style, radius) == SetPx(style, "radius", radius)

\* updateSearchOpacity(opacity): style.opacity = opacity.  A number is
\* kept as it is, null clears the property, anything else is dropped.
updateSearchOpacity(style, opacity) ==
  CASE opacity.t = "num" -> [style EXCEPT !.opacity = opacity]
    [] opacity.t = "null" -> [style EXCEPT !.opacity = Unset]
    [] OTHER -> style

\* The four style updates that applyInitialSettings and handleStorageChange
\* make from a general category, in the order of the code, each under
\* `if (value !== undefined)`.
ApplyGeneralStyle(style, general) ==
  LET width == Prop(general, "searchWidth")
      height == Prop(general, "searchHeight")
      radius == Prop(general, "searchRadius")
      opacity == Prop(general, "searchOpacity")
      s1 == IF width.t = "undef" THEN style ELSE updateSearchWidth(style, width)
      s2 == IF height.t = "undef" THEN s1 ELSE updateSearchHeight(s1, height)
      s3 == IF radius.t = "undef" THEN s2 ELSE updateSearchRadius(s2, radius)
  IN  IF opacity.t = "undef" THEN s3 ELSE updateSearchOpacity(s3, opacity)

\* applyInitialSettings: generalSettings.searchWidth raises a TypeError when
\* getCategory returned undefined or null; the catch block logs it.
applyInitialSettings(style, generalSettings) ==
  IF generalSettings.t \in {"undef", "null"} THEN style
  ELSE ApplyGeneralStyle(style, generalSettings)

----------------------------------------------------------------------------
(* Theme, Wallpaper and Search of one page *)

\* Theme as its constructor leaves it: currentTheme, mediaQuery, and with them
\* the data-theme attribute of the html element and what
\* matchMedia('(prefers-color-scheme: dark)').matches reports in this window.
ThemeNew ==
  [currentTheme |-> Str("system"), mediaQuery |-> Null, dataTheme |-> Unset,
   prefersDark |-> FALSE]

\* loadThemeSettings: themeSettings.mode || 'system'; a TypeError on an
\* undefined category is caught and gives 'system' as well.
loadThemeSettings(theme, themeSettings) ==
  LET mode == Prop(themeSettings, "mode")
  IN  [theme EXCEPT !.currentTheme = IF Truthy(mode) THEN mode ELSE Str("system")]

ThemeModes == {Str("system"), Str("light"), Str("dark")}

\* setupSystemThemeListener: the media query is kept and listened to.
setupSystemThemeListener(theme) ==
  [theme EXCEPT !.mediaQuery = Str("(prefers-color-scheme: dark)")]

\* A getSystemTheme that does not consult the media query.
getSystemThemeLight(theme) == Str("light")

\* getSystemTheme: 'dark' if there is a media query and it matches.
getSystemTheme(theme) ==
  IF theme.mediaQuery # Null /\ theme.prefersDark THEN Str("dark")
  ELSE Str("light")

\* applyTheme: data-theme is the mode, or the system's theme for 'system'.
applyTheme(theme) ==
  [theme EXCEPT !.dataTheme = IF theme.currentTheme = Str("system")
                              THEN getSystemTheme(theme)
                              ELSE theme.currentTheme]

\* Theme.init() from the resolution of its read to its end.
ThemeInit(theme, themeSettings) ==
  applyTheme(setupSystemThemeListener(loadThemeSettings(theme, themeSettings)))

\* What applyWallpaper draws from currentSettings: the background image
\* (`none` without a url), blur || 0 and overlayOpacity || 0.3.
applyWallpaper(currentSettings) ==
  LET url == Prop(currentSettings, "imageUrl")
      blur == Prop(currentSettings, "blur")
      opacity == Prop(currentSettings, "overlayOpacity")
  IN  [image |-> IF Truthy(url) THEN url ELSE Str("none"),
       blur |-> IF Truthy(blur) THEN blur ELSE Num(0),
       overlay |-> IF Truthy(opacity) THEN opacity ELSE Num(3)]

\* Wallpaper as its constructor leaves it: nothing is drawn yet.
WallpaperNew ==
  [currentSettings |-> Obj([imageUrl |-> Null, blur |-> Num(0),
                            overlayOpacity |-> Num(3)]),
   rendered |-> [image |-> Unset, blur |-> Unset, overlay |-> Unset]]

\* Wallpaper with the given currentSettings, drawn.
WallpaperWith(currentSettings) ==
  [currentSettings |-> currentSettings,
   rendered |-> applyWallpaper(currentSettings)]

\* loadWallpaperSettings and the applyWallpaper that init() makes after it:
\* { ...this.currentSettings, ...wallpaperSettings }.
loadWallpaperSettings(wallpaper, wallpaperSettings) ==
  WallpaperWith(Obj(Spread(wallpaperSettings) @@ wallpaper.currentSettings.v))

\* Search as its constructor leaves it.
SearchNew ==
  [engines |-> <<>>, currentEngineIndex |-> 0,
   tabSwitchEnabled |-> Bool(TRUE), openIn |-> Str("new-tab")]

\* enginesSettings.list || [] (the lists of the model's documents are arrays).
ListOr(list) == IF list.t = "arr" THEN list.v ELSE <<>>

\* The first half of loadEngineSettings, up to its second await.  With no
\* engines category the property access throws and the catch block ends the
\* function.
loadEngines(search, enginesSettings) ==
  IF enginesSettings.t \in {"undef", "null"} THEN search
  ELSE LET list == ListOr(Prop(enginesSettings, "list"))
           id == Prop(enginesSettings, "default")
       IN  [search EXCEPT
              !.engines = list,
              !.currentEngineIndex =
                 LoadedIndex(list, IF Truthy(id) THEN id.v ELSE "google")]

\* The second half of loadEngineSettings: tabSwitch !== false and
\* openIn || 'new-tab'.
loadGeneral(search, generalSettings) ==
  IF generalSettings.t \in {"undef", "null"} THEN search
  ELSE LET openIn == Prop(generalSettings, "openIn")
       IN  [search EXCEPT
              !.tabSwitchEnabled =
                 Bool(Prop(generalSettings, "tabSwitch") # Bool(FALSE)),
              !.openIn = IF Truthy(openIn) THEN openIn ELSE Str("new-tab")]

\* Search.updateSettings({openIn}) and Search.updateSettings({tabSwitch}).
updateOpenIn(search, openIn) ==
  IF openIn.t = "undef" THEN search ELSE [search EXCEPT !.openIn = openIn]

updateTabSwitch(search, enabled) ==
  IF enabled.t = "undef" THEN search
  ELSE [search EXCEPT !.tabSwitchEnabled = enabled]

\* An updateEngines that keeps an index one past the end of the list.
updateEnginesKeepsEnd(search, list) ==
  [search EXCEPT
     !.engines = list,
     !.currentEngineIndex = IF @ > Len(list) THEN 0 ELSE @]

\* Search.updateEngines(engines)
updateEngines(search, list) ==
  [search EXCEPT
     !.engines = list,
     !.currentEngineIndex = IF @ >= Len(list) THEN 0 ELSE @]

\* The steps of App.init(), in the order of the code.
InitSteps ==
  <<"storage", "theme", "wallpaper", "clock", "search", "settings", "bind",
    "apply", "initialized">>

\* A page whose App.init() has completed over the stored document `doc`, and
\* whose modules have loaded their settings from it.
BootedTab(doc) ==
  LET cat(c) == getCategory(doc, DefaultSettings, c, TRUE)
  IN  [pc |-> "ready", steps |-> InitSteps, loading |-> FALSE,
       isInitialized |-> TRUE, bound |-> TRUE, listeners |-> {"app"},
       loads |-> {},
       theme |-> ThemeInit(ThemeNew, cat("theme")),
       wallpaper |-> loadWallpaperSettings(WallpaperNew, cat("wallpaper")),
       search |-> loadGeneral(loadEngines(SearchNew, cat("engines")),
                              cat("general")),
       style |-> applyInitialSettings(NoStyle, cat("general")),
       view |-> NoView, reads |-> <<>>,
       panel |-> [PanelNew EXCEPT
                    !.engines = ListOr(Prop(cat("engines"), "list"))]]

\* The steps of a page leave the single-page modules alone.
AppFrame == UNCHANGED <<regV, panelV, searchV, now>>

----------------------------------------------------------------------------
(* The search box's height *)

\* The heights the panel can send run from 0 to this many pixels.
MaxHeight == 100

WidthInputs == {30, 70}

\* One page is open on the default document; no storage call is pending.
InitHeight ==
  /\ store = DefaultSettings
  /\ defaultSettings = DefaultSettings
  /\ initPc = "done"
  /\ initRet = DefaultSettings
  /\ mergeRet = Undef
  /\ persisted = Undef
  /\ got = NoGot
  /\ calls = <<>>
  /\ writeOrder = <<>>
  /\ InitSingle
  /\ app = [t \in Tabs |-> IF t = 1 THEN BootedTab(store) ELSE FreshTab]
  /\ inbox = [t \in Tabs |-> <<>>]
  /\ last = NoOp

\* The 'searchWidthChanged' listener of page t runs with e.detail = width.
AppSearchWidthChanged(t, width) ==
  /\ app[t].bound
  /\ app' = [app EXCEPT ![t].style = updateSearchWidth(@, width)]
  /\ last' = [op |-> "searchWidthChanged", tab |-> t, detail |-> width]
  /\ UNCHANGED <<storeV, initV, got, calls, writeOrder, inbox>>
  /\ AppFrame

\* The 'searchHeightChanged' listener of page t runs with e.detail = height.
AppSearchHeightChanged(t, height) ==
  /\ app[t].bound
  /\ app' = [app EXCEPT ![t].style = updateSearchHeight(@, height)]
  /\ last' = [op |-> "searchHeightChanged", tab |-> t, detail |-> height]
  /\ UNCHANGED <<storeV, initV, got, calls, writeOrder, inbox>>
  /\ AppFrame

NextHeight ==
  \/ \E t \in Tabs, w \in WidthInputs : AppSearchWidthChanged(t, Num(w))
  \/ \E t \in Tabs, h \in 0..MaxHeight : AppSearchHeightChanged(t, Num(h))

SpecHeight == InitHeight /\ [][NextHeight]_vars

\* n is x rounded to the nearest integer, a tie going up: n - 1/2 <= x and
\* x < n + 1/2, for x = num / den.
Nearest(n, num, den) ==
  /\ 2 * den * n - den <= 2 * num
  /\ 2 * num < 2 * den * n + den

\* The height of the search box of page t, in pixels (-1 while unset).
HeightOf(t) ==
  IF app[t].style.height.t = "px" THEN app[t].style.height.v ELSE -1

\* C19: whenever the search box of a page has height h, its icon size is
\* h * 0.4, its icon margin h * 0.3 and its font size h * 0.32, each rounded
\* to the nearest pixel, whatever else the page holds; at h = 50 they are 20,
\* 15 and 16.
C19_HeightScaling ==
  \A t \in Tabs :
    HeightOf(t) >= 0 =>
      LET h == HeightOf(t)
          st == app[t].style
      IN  /\ st.iconSize.t = "px" /\ Nearest(st.iconSize.v, 4 * h, 10)
          /\ st.iconMargin.t = "px" /\ Nearest(st.iconMargin.v, 3 * h, 10)
          /\ st.fontSize.t = "px" /\ Nearest(st.fontSize.v, 32 * h, 100)
          /\ h = 50 => /\ st.iconSize = Px(20)
                       /\ st.iconMargin = Px(15)
                       /\ st.fontSize = Px(16)

\* C19's case: the handler ran with 50 and the page shows 20, 15 and 16.
C19_Witness ==
  /\ last.op = "searchHeightChanged"
  /\ last.detail = Num(50)
  /\ app[1].style.height = Px(50)
  /\ app[1].style.iconSize = Px(20)
  /\ app[1].style.iconMargin = Px(15)
  /\ app[1].style.fontSize = Px(16)
  /\ app[1].style.width = Px(70)

----------------------------------------------------------------------------
(* App.init *)

\* The page whose start-up is followed.
Booting == 1

\* What storage may hold when that page opens: nothing, an empty document,
\* a document with an edited height, and one whose general category is null.
BootStores ==
  {Undef, Obj(NoKeys),
   PutKey(DefaultSettings, "general", "searchHeight", Num(50)),
   PutCat(DefaultSettings, "general", Null)}

InitApp ==
  /\ store \in BootStores
  /\ defaultSettings = DefaultSettings
  /\ initPc = "start"
  /\ initRet = Undef
  /\ mergeRet = Undef
  /\ persisted = Undef
  /\ got = NoGot
  /\ calls = <<>>
  /\ writeOrder = <<>>
  /\ InitModules

\* A step of page t that touches nothing but the page.
PageStep(t, name) ==
  /\ last' = [op |-> name, tab |-> t]
  /\ UNCHANGED <<storeV, initV, got, calls, writeOrder, inbox>>
  /\ AppFrame

\* DOMContentLoaded: App.init() runs up to `await storageManager.init()`.
AppInit(t) ==
  /\ Ready
  /\ app[t].pc = "new"
  /\ initPc = "start"
  /\ app' = [app EXCEPT ![t].pc = "storage", ![t].loading = TRUE]
  /\ PageStep(t, "App.init")

\* An initModules that constructs Wallpaper ahead of Theme.
initModulesWallpaperFirst(tab) ==
  [tab EXCEPT
     !.wallpaper = WallpaperNew,
     !.theme = ThemeNew,
     !.search = SearchNew,
     !.loads = {"theme", "wallpaper", "engines"},
     !.steps = @ \o <<"wallpaper", "theme", "clock", "search", "settings">>]

\* initModules(): the five constructors in the order of the code.  Each
\* constructor calls its module's init(), which runs up to its first await
\* (a getCategory read) or, for Clock, to its end.  The controls of the
\* Settings panel are not part of the page record.
initModules(tab) ==
  [tab EXCEPT
     !.theme = ThemeNew,
     !.wallpaper = WallpaperNew,
     !.search = SearchNew,
     !.loads = {"theme", "wallpaper", "engines"},
     !.steps = @ \o <<"theme", "wallpaper", "clock", "search", "settings">>]

\* bindModuleEvents(): the document listeners, then the storage subscription.
bindModuleEvents(tab) ==
  [tab EXCEPT !.bound = TRUE, !.listeners = @ \cup {"app"},
              !.steps = Append(@, "bind")]

\* bindModuleEvents() when chrome.storage.onChanged cannot be reached (the
\* page runs outside the extension): the document listeners are registered,
\* the subscription throws, and init()'s catch block shows the error.
bindThrows(tab) == [tab EXCEPT !.bound = TRUE, !.pc = "failed"]

\* storageManager.init() has resolved: initModules(), bindModuleEvents() and
\* applyInitialSettings() up to its read run with no other task in between.
AppInitModules(t, subscribes) ==
  /\ Ready
  /\ app[t].pc = "storage"
  /\ initPc = "done"
  /\ LET stored == [app[t] EXCEPT !.steps = Append(@, "storage")]
     IN  app' = [app EXCEPT
                   ![t] = IF subscribes
                          THEN [bindModuleEvents(initModules(stored))
                                  EXCEPT !.pc = "applying"]
                          ELSE bindThrows(initModules(stored))]
  /\ PageStep(t, "initModules")

\* applyInitialSettings() after its read, hideLoadingState() and
\* isInitialized = true.
AppApplyInitialSettings(t, readOk) ==
  /\ Ready
  /\ app[t].pc = "applying"
  /\ app' = [app EXCEPT
               ![t].style = applyInitialSettings(@,
                              getCategory(store, defaultSettings, "general", readOk)),
               ![t].steps = @ \o <<"apply", "initialized">>,
               ![t].loading = FALSE,
               ![t].isInitialized = TRUE,
               ![t].pc = "ready"]
  /\ PageStep(t, "applyInitialSettings")

\* Theme.init() after its read.
ThemeLoaded(t, readOk) ==
  /\ Ready
  /\ "theme" \in app[t].loads
  /\ app' = [app EXCEPT
               ![t].theme = ThemeInit(@,
                              getCategory(store, defaultSettings, "theme", readOk)),
               ![t].loads = @ \ {"theme"}]
  /\ PageStep(t, "Theme.init")

\* Wallpaper.init() after its read.
WallpaperLoaded(t, readOk) ==
  /\ Ready
  /\ "wallpaper" \in app[t].loads
  /\ app' = [app EXCEPT
               ![t].wallpaper = loadWallpaperSettings(@,
                              getCategory(store, defaultSettings, "wallpaper", readOk)),
               ![t].loads = @ \ {"wallpaper"}]
  /\ PageStep(t, "Wallpaper.init")

\* loadEngineSettings() after its first read: the second read is pending,
\* unless the first one returned no category.
SearchEnginesLoaded(t, readOk) ==
  /\ Ready
  /\ "engines" \in app[t].loads
  /\ LET es == getCategory(store, defaultSettings, "engines", readOk)
     IN  app' = [app EXCEPT
                   ![t].search = loadEngines(@, es),
                   ![t].loads = (@ \ {"engines"}) \cup
                                (IF es.t \in {"undef", "null"} THEN {}
                                 ELSE {"general"})]
  /\ PageStep(t, "Search.loadEngines")

\* loadEngineSettings() after its second read.
SearchGeneralLoaded(t, readOk) ==
  /\ Ready
  /\ "general" \in app[t].loads
  /\ app' = [app EXCEPT
               ![t].search = loadGeneral(@,
                              getCategory(store, defaultSettings, "general", readOk)),
               ![t].loads = @ \ {"general"}]
  /\ PageStep(t, "Search.loadGeneral")

NextApp ==
  \/ AppInit(Booting)
  \/ app[Booting].pc = "storage" /\ \E ok \in BOOLEAN : StorageInitRead(ok)
  \/ \E i \in CallIds, ok \in BOOLEAN : StorageInitWrite(i, ok)
  \/ \E s \in BOOLEAN : AppInitModules(Booting, s)
  \/ \E ok \in BOOLEAN : AppApplyInitialSettings(Booting, ok)
  \/ \E ok \in BOOLEAN : ThemeLoaded(Booting, ok)
  \/ \E ok \in BOOLEAN : WallpaperLoaded(Booting, ok)
  \/ \E ok \in BOOLEAN : SearchEnginesLoaded(Booting, ok)
  \/ \E ok \in BOOLEAN : SearchGeneralLoaded(Booting, ok)

SpecApp == InitApp /\ [][NextApp]_vars

\* s is an initial part of q.
IsPrefix(s, q) == Len(s) <= Len(q) /\ s = SubSeq(q, 1, Len(s))

\* C17: the steps App.init() has completed are an initial part of: storage
\* init resolved, Theme, Wallpaper, Clock, Search and Settings constructed,
\* handlers and storage subscription bound, general settings applied,
\* isInitialized set.  A step is recorded only with what it does in place
\* (storage init done, module constructed, subscription registered, the
\* stored general settings in the styles), isInitialized is true exactly when
\* all of them are, and a start-up that threw never sets it.
C17_InitOrder ==
  LET a == app[Booting]
      done(step) == \E i \in 1..Len(a.steps) : a.steps[i] = step
  IN  /\ IsPrefix(a.steps,
                  <<"storage", "theme", "wallpaper", "clock", "search",
                    "settings", "bind", "apply", "initialized">>)
      /\ done("storage") => initPc = "done"
      /\ done("theme") <=> a.theme # Null
      /\ done("wallpaper") <=> a.wallpaper # Null
      /\ done("search") <=> a.search # Null
      /\ done("bind") <=> "app" \in a.listeners
      /\ done("apply") =>
           \E ok \in BOOLEAN :
             a.style = applyInitialSettings(NoStyle,
                         getCategory(store, DefaultSettings, "general", ok))
      /\ ~done("apply") => a.style = NoStyle
      /\ a.isInitialized <=> done("initialized")
      /\ a.isInitialized => done("apply") /\ done("bind") /\ done("settings")
      /\ a.pc = "failed" => ~a.isInitialized /\ a.loading

\* C17's case: the start-up completed over a stored height of 50, which is
\* in the styles, while Search is still loading.
C17_Witness ==
  /\ app[Booting].isInitialized
  /\ app[Booting].steps = InitSteps
  /\ app[Booting].style.height = Px(50)
  /\ "general" \in app[Booting].loads
  /\ app[Booting].theme.currentTheme = Str("system")

\* A start-up that threw stays uninitialised for good.
C17_FailedWitness ==
  /\ app[Booting].pc = "failed"
  /\ ~app[Booting].isInitialized
  /\ app[Booting].loads = {}

----------------------------------------------------------------------------
(* Storage change notifications *)

\* What chrome.storage.onChanged hands to a listener: the value stored under
\* the key after the change and before it (Undef where there is none).
Note(new, old) == [new |-> new, old |-> old]

\* The inboxes once the stored value went from `old` to `new`: the event is
\* raised only when the value changed, in every page that has subscribed,
\* the page that wrote included.
Notified(inb, old, new) ==
  IF new = old THEN inb
  ELSE [t \in Tabs |-> IF app[t].listeners # {}
                      THEN Append(inb[t], Note(new, old)) ELSE inb[t]]

\* What a storage call of a page's module keeps: the page.
PageEnv(t) == [tab |-> t, emit |-> "none", detail |-> Undef]

\* The updateCategory call a module of page t makes.
PageCall(t, owner, category, updates) ==
  Call(owner, category, updates, "get", Undef, PageEnv(t))

\* A setEngine that selects the first engine when the id is unknown.
setEngineFallsBack(search, engineId) ==
  IF engineId.t = "str" /\ FindIndex(search.engines, engineId.v) # 0
  THEN [search EXCEPT
          !.currentEngineIndex = FindIndex(search.engines, engineId.v) - 1]
  ELSE [search EXCEPT !.currentEngineIndex = 0]

\* Search.setEngine(engineId): the module afterwards.
setEngine(search, engineId) ==
  IF engineId.t = "str" /\ FindIndex(search.engines, engineId.v) # 0
  THEN [search EXCEPT
          !.currentEngineIndex = FindIndex(search.engines, engineId.v) - 1]
  ELSE search

\* The calls setEngine(engineId) makes through saveDefaultEngine.
setEngineCalls(t, search, engineId) ==
  IF engineId.t = "str" /\ FindIndex(search.engines, engineId.v) # 0
  THEN <<PageCall(t, "page.search", "engines",
                  "default" :> Str(search.engines[
                     FindIndex(search.engines, engineId.v)].id))>>
  ELSE <<>>

\* Theme.setTheme(theme): the module afterwards.
setTheme(theme, mode) ==
  IF mode \in ThemeModes THEN applyTheme([theme EXCEPT !.currentTheme = mode])
  ELSE theme

\* The calls setTheme(theme) makes.
setThemeCalls(t, mode) ==
  IF mode \in ThemeModes
  THEN <<PageCall(t, "page.theme", "theme", "mode" :> mode)>>
  ELSE <<>>

\* A general branch that leaves the opacity alone.
HandleGeneralNoOpacity(tab, general) ==
  IF ~Truthy(general) THEN tab
  ELSE [tab EXCEPT
          !.style = updateSearchRadius(
                      updateSearchHeight(
                        updateSearchWidth(@, Prop(general, "searchWidth")),
                        Prop(general, "searchHeight")),
                      Prop(general, "searchRadius")),
          !.search = IF @ = Null THEN @
                     ELSE updateTabSwitch(updateOpenIn(@, Prop(general, "openIn")),
                                          Prop(general, "tabSwitch"))]

\* The general branch of handleStorageChange.
HandleGeneral(tab, general) ==
  IF ~Truthy(general) THEN tab
  ELSE [tab EXCEPT
          !.style = ApplyGeneralStyle(@, general),
          !.search = IF @ = Null THEN @
                     ELSE updateTabSwitch(updateOpenIn(@, Prop(general, "openIn")),
                                          Prop(general, "tabSwitch"))]

\* The wallpaper branch of handleStorageChange: its body is a comment.
HandleWallpaper(tab, wallpaper) == tab

\* The engines branch of handleStorageChange, up to setEngine.
HandleEnginesList(tab, es) ==
  IF ~Truthy(es) \/ tab.search = Null THEN tab
  ELSE [tab EXCEPT !.search = updateEngines(@, ListOr(Prop(es, "list")))]

\* An engines branch that takes the list and leaves the selection alone.
HandleEnginesKeepsIndex(tab, es) ==
  HandleEnginesList(tab, es)

\* The engines branch of handleStorageChange.
HandleEngines(tab, es) ==
  LET listed == HandleEnginesList(tab, es)
      id == Prop(es, "default")
  IN  IF ~Truthy(es) \/ tab.search = Null \/ ~Truthy(id) THEN listed
      ELSE [listed EXCEPT !.search = setEngine(@, id)]

\* The theme branch of handleStorageChange.
HandleTheme(tab, th) ==
  IF Truthy(th) /\ Truthy(Prop(th, "mode")) /\ tab.theme # Null
  THEN [tab EXCEPT !.theme = setTheme(@, Prop(th, "mode"))]
  ELSE tab

\* Wallpaper.onSettingsChange's listener: it takes a changed wallpaper
\* category into currentSettings and draws it.
WallpaperListener(tab, n) ==
  LET new == Prop(n.new, "wallpaper")
      old == IF Truthy(n.old) THEN Prop(n.old, "wallpaper") ELSE Obj(NoKeys)
  IN  IF Truthy(n.new) /\ Truthy(new) /\ new # old /\ tab.wallpaper # Null
      THEN [tab EXCEPT
              !.wallpaper = WallpaperWith(
                              Obj(Spread(new) @@ @.currentSettings.v))]
      ELSE tab

\* handleStorageChange(newSettings, oldSettings): the page afterwards.
handleStorageChange(tab, newSettings) ==
  IF ~Truthy(newSettings) THEN tab
  ELSE HandleTheme(
         HandleEngines(
           HandleWallpaper(
             HandleGeneral(tab, Prop(newSettings, "general")),
             Prop(newSettings, "wallpaper")),
           Prop(newSettings, "engines")),
         Prop(newSettings, "theme"))

\* The storage calls handleStorageChange makes, in the order of the code:
\* setEngine's save, then setTheme's.
handleStorageChangeCalls(t, tab, newSettings) ==
  IF ~Truthy(newSettings) THEN <<>>
  ELSE LET es == Prop(newSettings, "engines")
           th == Prop(newSettings, "theme")
       IN  (IF Truthy(es) /\ tab.search # Null /\ Truthy(Prop(es, "default"))
            THEN setEngineCalls(t, HandleEnginesList(tab, es).search,
                                Prop(es, "default"))
            ELSE <<>>)
           \o
           (IF Truthy(th) /\ Truthy(Prop(th, "mode")) /\ tab.theme # Null
            THEN setThemeCalls(t, Prop(th, "mode"))
            ELSE <<>>)

\* The listeners a page has registered run on a notification, in the order
\* of registration.  Only App's is ever registered: nothing calls
\* Wallpaper.onSettingsChange or Theme.onThemeChange.
RunListeners(tab, n) ==
  LET a == IF "app" \in tab.listeners THEN handleStorageChange(tab, n.new)
           ELSE tab
  IN  IF "wallpaper" \in tab.listeners THEN WallpaperListener(a, n) ELSE a

\* chrome.storage.onChanged fires in page t: the oldest pending notification
\* is delivered.
HandleStorageChange(t) ==
  /\ Ready
  /\ inbox[t] # <<>>
  /\ LET n == Head(inbox[t])
     IN  /\ app' = [app EXCEPT ![t] = RunListeners(@, n)]
         /\ calls' = calls \o (IF "app" \in app[t].listeners
                               THEN handleStorageChangeCalls(t, app[t], n.new)
                               ELSE <<>>)
  /\ inbox' = [inbox EXCEPT ![t] = Tail(@)]
  /\ last' = [op |-> "handleStorageChange", tab |-> t]
  /\ UNCHANGED <<storeV, initV, got, writeOrder>>
  /\ AppFrame

PageOwners == {"page.search", "page.theme", "page.wallpaper"}

\* The updateCategory of a page's module resolves (its write landed, and the
\* pages are notified if the stored document changed) or rejects; the module
\* logs a rejection.
PageCallSettled(i, ok) ==
  /\ Ready
  /\ i \in CallIds
  /\ calls[i].owner \in PageOwners
  /\ IF ok
     THEN /\ calls[i].st = "set"
          /\ LandWrite(i)
          /\ inbox' = Notified(inbox, store, SetResult(store, calls[i].doc))
     ELSE /\ Pending(i)
          /\ FailCall(i)
          /\ UNCHANGED inbox
  /\ last' = NoOp
  /\ UNCHANGED <<defaultSettings, initV, got, app>>
  /\ AppFrame

----------------------------------------------------------------------------
(* One page and the writes of others *)

\* Pages outside the model write this many times at most.
MaxRemote == 1

\* Every field of the general category edited, and the theme.
EditedDoc ==
  Obj([general |->
         Obj([searchWidth |-> Num(50), searchHeight |-> Num(5),
              searchRadius |-> Num(10), searchOpacity |-> Num(5),
              openIn |-> Str("current-tab"), tabSwitch |-> Bool(FALSE)]),
       wallpaper |-> DefaultSettings.v["wallpaper"],
       engines |-> DefaultSettings.v["engines"],
       theme |-> Obj([mode |-> Str("dark")])])

\* The documents such a page writes: the defaults with the opacity edited,
\* with the blur edited, with another default engine, with everything
\* general edited, and the document an
\* updateCategory('general', {searchOpacity: 0.5}) makes of an empty store.
RemoteDocs ==
  {PutKey(DefaultSettings, "general", "searchOpacity", Num(5)),
   PutKey(DefaultSettings, "wallpaper", "blur", Num(10)),
   PutKey(DefaultSettings, "engines", "default", Str("bing")),
   EditedDoc,
   Obj("general" :> Obj("searchOpacity" :> Num(5)))}

\* The writes of pages outside the model are entered in writeOrder as 0.
RemoteWrites == Len(SelectSeq(writeOrder, LAMBDA i : i = 0))

\* A page outside the model writes `doc`, or removes the key (doc = Undef).
RemoteWrite(doc) ==
  /\ Ready
  /\ RemoteWrites < MaxRemote
  /\ store' = doc
  /\ writeOrder' = Append(writeOrder, 0)
  /\ inbox' = Notified(inbox, store, doc)
  /\ last' = NoOp
  /\ UNCHANGED <<defaultSettings, initV, got, calls, app>>
  /\ AppFrame

InitNotify ==
  /\ store = DefaultSettings
  /\ defaultSettings = DefaultSettings
  /\ initPc = "done"
  /\ initRet = DefaultSettings
  /\ mergeRet = Undef
  /\ persisted = Undef
  /\ got = NoGot
  /\ calls = <<>>
  /\ writeOrder = <<>>
  /\ InitSingle
  /\ app = [t \in Tabs |-> IF t = 1 THEN BootedTab(store) ELSE FreshTab]
  /\ inbox = [t \in Tabs |-> <<>>]
  /\ last = NoOp

NextNotify ==
  \/ \E doc \in RemoteDocs \cup {Undef} : RemoteWrite(doc)
  \/ \E t \in Tabs : Len(calls) <= MaxRemote /\ HandleStorageChange(t)
  \/ \E i \in CallIds : UpdateCategoryRead(i)
  \/ \E i \in CallIds, ok \in BOOLEAN : PageCallSettled(i, ok)

SpecNotify == InitNotify /\ [][NextNotify]_vars

----------------------------------------------------------------------------
(* Claims about change notifications *)

\* Page t handles a notification in this step.
Handles(t) == last'.op = "handleStorageChange" /\ last'.tab = t

\* C15: when a page handles a notification whose new document has a general
\* category, every field the category defines is in the page afterwards:
\* width, height and radius as that many px, the opacity as the number
\* itself, openIn and tabSwitch in Search; a field it does not define is left
\* as it was.  A notification without a new document leaves the page as it
\* was and makes no storage call.
C15_GeneralApplied ==
  [][ \A t \in Tabs :
        Handles(t) =>
          LET n == Head(inbox[t])
              g == Prop(n.new, "general")
              px(field, key) ==
                IF Prop(g, key).t = "num"
                THEN app'[t].style[field] = Px(Prop(g, key).v)
                ELSE app'[t].style[field] = app[t].style[field]
          IN  /\ ~Truthy(n.new) => app'[t] = app[t] /\ calls' = calls
              /\ (Truthy(n.new) /\ g.t = "obj") =>
                   /\ px("width", "searchWidth")
                   /\ px("height", "searchHeight")
                   /\ px("radius", "searchRadius")
                   /\ app'[t].style.opacity =
                        IF Prop(g, "searchOpacity").t = "num"
                        THEN Prop(g, "searchOpacity")
                        ELSE app[t].style.opacity
                   /\ app'[t].search.openIn =
                        IF Prop(g, "openIn").t = "undef"
                        THEN app[t].search.openIn ELSE Prop(g, "openIn")
                   /\ app'[t].search.tabSwitchEnabled =
                        IF Prop(g, "tabSwitch").t = "undef"
                        THEN app[t].search.tabSwitchEnabled
                        ELSE Prop(g, "tabSwitch") ]_vars

\* C15's case: the page has handled the notification of a document whose
\* opacity is 0.5, and its search container's opacity is 0.5.
C15_Witness ==
  /\ last.op = "handleStorageChange"
  /\ last.tab = 1
  /\ Prop(Prop(store, "general"), "searchOpacity") = Num(5)
  /\ inbox[1] = <<>>
  /\ app[1].style.opacity = Num(5)
  /\ app[1].style.width = Px(40)
  /\ app[1].search.openIn = Str("new-tab")

\* C16: when a page handles a notification in which the wallpaper category
\* has changed, its Wallpaper holds the new values in currentSettings and has
\* drawn them.
C16_WallpaperFollows ==
  [][ \A t \in Tabs :
        Handles(t) =>
          LET n == Head(inbox[t])
              new == Prop(n.new, "wallpaper")
          IN  (Truthy(n.new) /\ new.t = "obj" /\ new # Prop(n.old, "wallpaper")) =>
                /\ \A k \in DOMAIN new.v :
                     Prop(app'[t].wallpaper.currentSettings, k) = new.v[k]
                /\ app'[t].wallpaper.rendered =
                     applyWallpaper(app'[t].wallpaper.currentSettings) ]_vars

----------------------------------------------------------------------------
(* Two pages and the edits made in their panels *)

\* The panels make this many edits at most.
MaxEdits == 1

\* An edit in the Settings panel: the category and key written, the value
\* (already parsed), and the event emitted once the write has landed.
Edit(cat, key, val, event) ==
  [cat |-> cat, key |-> key, val |-> val, event |-> event]

Edits ==
  {Edit("general", "searchOpacity", Num(5), "searchOpacityChanged"),
   Edit("wallpaper", "blur", Num(10), "wallpaperBlurChanged"),
   Edit("engines", "default", Str("bing"), "defaultEngineChanged"),
   Edit("theme", "mode", Str("dark"), "themeChanged")}

\* Wallpaper.setBlur(blur) and setOverlayOpacity(opacity), before their save.
setBlur(wallpaper, blur) ==
  LET cs == Obj(("blur" :> blur) @@ wallpaper.currentSettings.v)
  IN  [wallpaper EXCEPT !.currentSettings = cs,
                        !.rendered.blur = applyWallpaper(cs).blur]

setOverlayOpacity(wallpaper, opacity) ==
  LET cs == Obj(("overlayOpacity" :> opacity) @@ wallpaper.currentSettings.v)
  IN  [wallpaper EXCEPT !.currentSettings = cs,
                        !.rendered.overlay = applyWallpaper(cs).overlay]

\* The document listener of bindModuleEvents for `event` runs with
\* e.detail = detail: the page afterwards.
Dispatch(tab, event, detail) ==
  CASE event = "searchWidthChanged" ->
         [tab EXCEPT !.style = updateSearchWidth(@, detail)]
    [] event = "searchHeightChanged" ->
         [tab EXCEPT !.style = updateSearchHeight(@, detail)]
    [] event = "searchRadiusChanged" ->
         [tab EXCEPT !.style = updateSearchRadius(@, detail)]
    [] event = "searchOpacityChanged" ->
         [tab EXCEPT !.style = updateSearchOpacity(@, detail)]
    [] event = "openInChanged" ->
         [tab EXCEPT !.search = updateOpenIn(@, detail)]
    [] event = "tabSwitchChanged" ->
         [tab EXCEPT !.search = updateTabSwitch(@, detail)]
    [] event = "wallpaperBlurChanged" ->
         [tab EXCEPT !.wallpaper = setBlur(@, detail)]
    [] event = "wallpaperOverlayOpacityChanged" ->
         [tab EXCEPT !.wallpaper = setOverlayOpacity(@, detail)]
    [] event = "defaultEngineChanged" ->
         [tab EXCEPT !.search = setEngine(@, detail)]
    [] event = "enginesUpdated" ->
         [tab EXCEPT !.search = updateEngines(@, detail.v)]
    [] event = "themeChanged" ->
         [tab EXCEPT !.theme = setTheme(@, detail)]
    [] OTHER -> tab

\* The storage calls that listener makes.
DispatchCalls(t, tab, event, detail) ==
  CASE event = "wallpaperBlurChanged" ->
         <<PageCall(t, "page.wallpaper", "wallpaper", "blur" :> detail)>>
    [] event = "wallpaperOverlayOpacityChanged" ->
         <<PageCall(t, "page.wallpaper", "wallpaper",
                    "overlayOpacity" :> detail)>>
    [] event = "defaultEngineChanged" -> setEngineCalls(t, tab.search, detail)
    [] event = "themeChanged" -> setThemeCalls(t, detail)
    [] OTHER -> <<>>

\* The edits made so far: every edit makes one call of the panel.
EditsMade == Len(SelectSeq(calls, LAMBDA c : c.owner = "page.panel"))

\* Settings.updateSearchOpacity and its like run in page t up to their await.
PanelEdit(t, e) ==
  /\ Ready
  /\ app[t].bound
  /\ EditsMade < MaxEdits
  /\ calls' = Append(calls,
                Call("page.panel", e.cat, e.key :> e.val, "get", Undef,
                     [tab |-> t, emit |-> e.event, detail |-> e.val]))
  /\ last' = [op |-> "edit", tab |-> t]
  /\ UNCHANGED <<storeV, initV, got, writeOrder, appV>>
  /\ AppFrame

\* A CustomEvent the panel dispatches on the document.
Event(name, detail) == [event |-> name, detail |-> detail]

\* The object handleResetSettings writes into the general category.
defaultGeneral ==
  [searchWidth |-> Num(40), searchHeight |-> Num(6), searchRadius |-> Num(30),
   searchOpacity |-> Num(8), openIn |-> Str("new-tab"),
   tabSwitch |-> Bool(TRUE)]

\* The events handleResetSettings emits, in order.
ResetEvents ==
  << Event("searchWidthChanged", defaultGeneral.searchWidth),
     Event("searchHeightChanged", defaultGeneral.searchHeight),
     Event("searchRadiusChanged", defaultGeneral.searchRadius),
     Event("searchOpacityChanged", defaultGeneral.searchOpacity),
     Event("openInChanged", defaultGeneral.openIn),
     Event("tabSwitchChanged", defaultGeneral.tabSwitch) >>

\* A panel that emits its event whether or not the write went through.
EmittedAnyway(c, ok) ==
  IF c.env.emit = "reset" THEN ResetEvents
  ELSE <<Event(c.env.emit, c.env.detail)>>

\* What the panel emits when the updateCategory of call c has settled: the
\* emit follows the await inside the try, so a rejection skips it.
Emitted(c, ok) ==
  IF ~ok THEN <<>>
  ELSE IF c.env.emit = "reset" THEN ResetEvents
  ELSE <<Event(c.env.emit, c.env.detail)>>

\* The page after the listeners of the events have run, one event after the
\* other, and the storage calls those listeners made.
RECURSIVE DispatchAll(_, _)
DispatchAll(tab, events) ==
  IF events = <<>> THEN tab
  ELSE DispatchAll(Dispatch(tab, Head(events).event, Head(events).detail),
                   Tail(events))

RECURSIVE DispatchAllCalls(_, _, _)
DispatchAllCalls(t, tab, events) ==
  IF events = <<>> THEN <<>>
  ELSE DispatchCalls(t, tab, Head(events).event, Head(events).detail)
       \o DispatchAllCalls(t, Dispatch(tab, Head(events).event,
                                       Head(events).detail),
                           Tail(events))

\* The panel's updateCategory resolves: the write has landed, the pages are
\* notified, and the panel emits its events, whose listeners run at once.  Or
\* it rejects, and the panel logs the error.
PanelCallSettled(i, ok) ==
  /\ Ready
  /\ i \in CallIds
  /\ calls[i].owner = "page.panel"
  /\ LET t == calls[i].env.tab
         events == Emitted(calls[i], ok)
     IN  /\ IF ok
            THEN /\ calls[i].st = "set"
                 /\ LandStore(i)
                 /\ calls' = Landed(i) \o DispatchAllCalls(t, app[t], events)
                 /\ inbox' = Notified(inbox, store,
                                      SetResult(store, calls[i].doc))
            ELSE /\ Pending(i)
                 /\ calls' = Failed(i) \o DispatchAllCalls(t, app[t], events)
                 /\ UNCHANGED <<store, writeOrder, inbox>>
         /\ app' = [app EXCEPT ![t] = DispatchAll(@, events)]
         /\ last' = [op |-> "settled", call |-> i, emitted |-> events]
  /\ UNCHANGED <<defaultSettings, initV, got>>
  /\ AppFrame

\* Both pages are open on the default document; nothing is pending.
InitTabs ==
  /\ store = DefaultSettings
  /\ defaultSettings = DefaultSettings
  /\ initPc = "done"
  /\ initRet = DefaultSettings
  /\ mergeRet = Undef
  /\ persisted = Undef
  /\ got = NoGot
  /\ calls = <<>>
  /\ writeOrder = <<>>
  /\ InitSingle
  /\ app = [t \in Tabs |-> BootedTab(store)]
  /\ inbox = [t \in Tabs |-> <<>>]
  /\ last = NoOp

\* The page whose panel is used; the other page runs the same code and is
\* where the edits have to arrive.
Editor == 1

\* The behaviours in which storage does not fail.
NextTabs ==
  \/ \E e \in Edits : PanelEdit(Editor, e)
  \/ \E i \in CallIds : UpdateCategoryRead(i)
  \/ \E i \in CallIds : PanelCallSettled(i, TRUE)
  \/ \E i \in CallIds : PageCallSettled(i, TRUE)
  \/ \E t \in Tabs : HandleStorageChange(t)

SpecTabs == InitTabs /\ [][NextTabs]_vars

\* Every storage call has settled and every notification is delivered.
Quiescent ==
  /\ \A i \in CallIds : ~Pending(i)
  /\ \A t \in Tabs : inbox[t] = <<>>

\* C14: once every write and every notification has been processed, each of
\* the two pages holds what a page freshly loaded from the stored document
\* holds: the same styles of the search box, openIn and tabSwitch, engine
\* list and selected engine, theme mode and wallpaper settings.
C14_TabsConverge ==
  Quiescent => \A t \in Tabs : app[t] = BootedTab(store)

----------------------------------------------------------------------------
(* Claims about failed updates *)

\* The callers of the rejection specification make this many updates at most.
MaxUpdates == 1

NextReject ==
  \/ \E u \in UpdateInputs :
       Len(calls) < MaxUpdates /\ UpdateCategoryCall(u[1], u[2])
  \/ \E i \in CallIds : UpdateCategoryRead(i)
  \/ \E i \in CallIds, ok \in BOOLEAN : CallerSettled(i, ok)
  \/ \E c \in Categories, ok \in BOOLEAN : GetCategory(c, ok)

SpecReject == InitStore /\ [][NextReject]_vars

IsFailed(c) == c.st \in {"readFailed", "writeFailed"}

\* C21: the step in which the read or the write of an updateCategory call
\* fails settles the call as rejected (on its read, or on its write), leaves
\* the stored document and the order of landed writes as they were and makes
\* no new call; a rejected call stays as it is for good, so it is never
\* tried again.
C21_FailedUpdateRejects ==
  [][ \A i \in CallIds :
        /\ (Pending(i) /\ IsFailed(calls'[i])) =>
             /\ calls'[i].st =
                  IF calls[i].st = "get" THEN "readFailed" ELSE "writeFailed"
             /\ store' = store
             /\ writeOrder' = writeOrder
             /\ Len(calls') = Len(calls)
        /\ IsFailed(calls[i]) => calls'[i] = calls[i] ]_vars

\* C21's case: an update of the theme was rejected on its write, and the
\* store holds the default theme although the rejected document held 'dark'.
C21_Witness ==
  \E i \in CallIds :
    /\ calls[i].owner = "caller"
    /\ calls[i].st = "writeFailed"
    /\ Prop(Prop(calls[i].doc, "theme"), "mode") = Str("dark")
    /\ store = DefaultSettings
    /\ \A j \in 1..Len(writeOrder) : writeOrder[j] # i

----------------------------------------------------------------------------
(* The Settings panel of one page: edits and resets *)

\* The calls made by a reset.
IsReset(c) ==
  \/ c.owner = "reg.reset"
  \/ "emit" \in DOMAIN c.env /\ c.env.emit = "reset"

\* The edits and resets made so far through the panel.
PanelOps ==
  Len(SelectSeq(calls, LAMBDA c : c.owner = "page.panel" \/ IsReset(c)))

\* Settings.handleResetSettings in page t, up to its await: nothing happens
\* unless the user confirms.
PanelReset(t, confirmed) ==
  /\ Ready
  /\ app[t].bound
  /\ calls' = IF confirmed
              THEN Append(calls,
                     Call("page.panel", "general", defaultGeneral, "get",
                          Undef, [tab |-> t, emit |-> "reset",
                                  detail |-> Undef]))
              ELSE calls
  /\ last' = [op |-> "reset", tab |-> t]
  /\ UNCHANGED <<storeV, initV, got, writeOrder, appV>>
  /\ AppFrame

\* Wallpaper.resetSettings(), before its save.
resetSettings(wallpaper) ==
  WallpaperWith(Obj([imageUrl |-> Null, blur |-> Num(0),
                     overlayOpacity |-> Num(3)]))

\* Settings.handleWallpaperReset in page t: once confirmed it emits
\* wallpaperReset, whose listener runs Wallpaper.resetSettings up to its await.
WallpaperReset(t, confirmed) ==
  /\ Ready
  /\ app[t].bound
  /\ IF confirmed
     THEN /\ app' = [app EXCEPT ![t].wallpaper = resetSettings(@)]
          /\ calls' = Append(calls,
                        Call("page.wallpaper", "wallpaper",
                             resetSettings(app[t].wallpaper).currentSettings.v,
                             "get", Undef,
                             [tab |-> t, emit |-> "reset", detail |-> Undef]))
     ELSE UNCHANGED <<app, calls>>
  /\ last' = [op |-> "wallpaperReset", tab |-> t]
  /\ UNCHANGED <<storeV, initV, got, writeOrder, inbox>>
  /\ AppFrame

\* The page is open on the default document or on an edited one.
InitPanel ==
  /\ store \in {DefaultSettings, EditedDoc}
  /\ defaultSettings = DefaultSettings
  /\ initPc = "done"
  /\ initRet = store
  /\ mergeRet = Undef
  /\ persisted = Undef
  /\ got = NoGot
  /\ calls = <<>>
  /\ writeOrder = <<>>
  /\ InitSingle
  /\ app = [t \in Tabs |-> IF t = Editor THEN BootedTab(store) ELSE FreshTab]
  /\ inbox = [t \in Tabs |-> <<>>]
  /\ last = NoOp

NextPanel ==
  \/ \E e \in Edits : PanelOps < MaxEdits /\ PanelEdit(Editor, e)
  \/ \E confirmed \in BOOLEAN :
       PanelOps < MaxEdits /\ PanelReset(Editor, confirmed)
  \/ \E confirmed \in BOOLEAN :
       PanelOps < MaxEdits /\ WallpaperReset(Editor, confirmed)
  \/ \E i \in CallIds : UpdateCategoryRead(i)
  \/ \E i \in CallIds, ok \in BOOLEAN : PanelCallSettled(i, ok)
  \/ \E i \in CallIds : PageCallSettled(i, TRUE)
  \/ \E t \in Tabs : Len(calls) <= MaxEdits /\ HandleStorageChange(t)

SpecPanel == InitPanel /\ [][NextPanel]_vars

----------------------------------------------------------------------------
(* Claims about resets and about the panel's events *)

\* The general settings in the order handleResetSettings announces them.
GeneralKeys ==
  <<"searchWidth", "searchHeight", "searchRadius", "searchOpacity", "openIn",
    "tabSwitch">>

\* The events that would carry the default general slice.
DefaultEvents ==
  [k \in 1..Len(GeneralKeys) |->
     Event(GeneralKeys[k] \o "Changed",
           Prop(Prop(DefaultSettings, "general"), GeneralKeys[k]))]

\* C22: when the write of a reset lands, the stored category equals the
\* default slice of StorageManager.defaultSettings, and the events of the
\* general reset carry the default values.
C22_ResetRestoresDefaults ==
  [][\A i \in CallIds :
       (IsReset(calls[i]) /\ calls[i].st = "set" /\ calls'[i].st = "ok")
         => /\ Prop(store', calls[i].cat) = Prop(DefaultSettings, calls[i].cat)
            /\ calls[i].owner = "page.panel" => last'.emitted = DefaultEvents
    ]_vars


\* C23: the panel dispatches events only in the step in which its
\* updateCategory settles; for an edit of one setting that is exactly the
\* named event, once, carrying the value just written and stored, when the
\* write succeeded, and nothing when the read or the write failed.  A settled
\* call never settles again, so the event is not dispatched a second time.
C23_EventAfterWrite ==
  [][ /\ \A i \in CallIds :
           (calls[i].owner = "page.panel" /\ ~IsReset(calls[i]) /\ Pending(i)
              /\ calls'[i].st \notin {"get", "set"})
             => /\ last'.op = "settled" /\ last'.call = i
                /\ IF calls'[i].st = "ok"
                   THEN \E k \in DOMAIN calls[i].updates :
                          /\ DOMAIN calls[i].updates = {k}
                          /\ last'.emitted =
                               <<Event(calls[i].env.emit, calls[i].updates[k])>>
                          /\ Prop(Prop(store', calls[i].cat), k)
                               = calls[i].updates[k]
                   ELSE last'.emitted = <<>>
      /\ (last'.op = "settled" /\ last'.emitted # <<>>)
           => Pending(last'.call) /\ calls'[last'.call].st = "ok"
    ]_vars

\* The write of the panel's blur edit has landed and wallpaperBlurChanged was
\* dispatched with the new blur.
C23_Witness ==
  /\ last.op = "settled"
  /\ last.emitted = <<Event("wallpaperBlurChanged", Num(10))>>
  /\ Prop(Prop(store, "wallpaper"), "blur") = Num(10)
  /\ app[Editor].wallpaper.rendered.blur = Num(10)

\* The write of a panel edit failed and nothing was dispatched.
C23_FailedWitness ==
  /\ last.op = "settled"
  /\ calls[last.call].st = "writeFailed"
  /\ last.emitted = <<>>

----------------------------------------------------------------------------
(* The selected engine of one page: load, and setEngine *)

\* The stored default engine is the first of the list, the second, or an id
\* the list does not have.
SelectedStores ==
  {PutKey(DefaultSettings, "engines", "default", Str(id)) :
     id \in {"google", "bing", "ghost"}}

\* The default engine chosen in the panel; "ghost" stands for an engine that
\* the page's list does not have.
EngineEdits ==
  {Edit("engines", "default", Str(id), "defaultEngineChanged") :
     id \in {"baidu", "ghost"}}

\* App.init() of the page has completed while Search.init() is still waiting
\* for its first read.
InitEngine ==
  /\ store \in SelectedStores
  /\ defaultSettings = DefaultSettings
  /\ initPc = "done"
  /\ initRet = store
  /\ mergeRet = Undef
  /\ persisted = Undef
  /\ got = NoGot
  /\ calls = <<>>
  /\ writeOrder = <<>>
  /\ InitSingle
  /\ app = [t \in Tabs |->
              IF t = Editor
              THEN [BootedTab(store) EXCEPT !.search = SearchNew,
                                            !.loads = {"engines"}]
              ELSE FreshTab]
  /\ inbox = [t \in Tabs |-> <<>>]
  /\ last = NoOp

NextEngine ==
  \/ \E ok \in BOOLEAN : SearchEnginesLoaded(Editor, ok)
  \/ SearchGeneralLoaded(Editor, TRUE)
  \/ \E e \in EngineEdits : PanelOps < MaxEdits /\ PanelEdit(Editor, e)
  \/ \E i \in CallIds : UpdateCategoryRead(i)
  \/ \E i \in CallIds, ok \in BOOLEAN : PanelCallSettled(i, ok)
  \/ \E i \in CallIds : PageCallSettled(i, TRUE)
  \/ \E t \in Tabs : Len(calls) <= MaxEdits /\ HandleStorageChange(t)

SpecEngine == InitEngine /\ [][NextEngine]_vars

\* No engine of the module's list has this id.
UnknownId(search, id) ==
  id.t # "str" \/ \A k \in 1..Len(search.engines) : search.engines[k].id # id.v

\* The saves Search has asked for.
SearchCalls(cs) == SelectSeq(cs, LAMBDA c : c.owner = "page.search")

\* C24: setEngine(id) with an id that the list does not have leaves
\* currentEngineIndex as it is and saves nothing, whether it is called for the
\* panel's defaultEngineChanged event or for a storage change (there after
\* the new list has been taken over); loadEngineSettings over a stored default
\* id that the stored list does not have selects index 0.
C24_UnknownEngine ==
  [][ /\ ( /\ last'.op = "settled"
           /\ last'.emitted # <<>>
           /\ last'.emitted[1].event = "defaultEngineChanged"
           /\ UnknownId(app[Editor].search, last'.emitted[1].detail) )
          => /\ app'[Editor].search = app[Editor].search
             /\ SearchCalls(calls') = SearchCalls(calls)
      /\ \A t \in Tabs :
           LET es == Prop(Head(inbox[t]).new, "engines")
               listed == HandleEnginesList(app[t], es).search
           IN  ( /\ Handles(t)
                 /\ Truthy(es) /\ Truthy(Prop(es, "default"))
                 /\ UnknownId(listed, Prop(es, "default")) )
                => /\ app'[t].search = listed
                   /\ SearchCalls(calls') = SearchCalls(calls)
      /\ \A t \in Tabs :
           LET es == Prop(store, "engines")
               s == app'[t].search
           IN  ( /\ last'.op = "Search.loadEngines" /\ last'.tab = t
                 /\ s.engines = ListOr(Prop(es, "list"))
                 /\ UnknownId(s, Prop(es, "default")) )
                => s.currentEngineIndex = 0
    ]_vars

\* The page had loaded "bing" (index 1); the panel then announced the unknown
\* "ghost": the index is still 1 and Search has saved nothing.
C24_Witness ==
  /\ last.op = "settled"
  /\ last.emitted = <<Event("defaultEngineChanged", Str("ghost"))>>
  /\ app[Editor].search.currentEngineIndex = 1
  /\ SearchCalls(calls) = <<>>

\* The stored default "ghost" was loaded over the stored list: index 0.
C24_LoadWitness ==
  /\ last.op = "Search.loadEngines"
  /\ Prop(Prop(store, "engines"), "default") = Str("ghost")
  /\ Len(app[Editor].search.engines) = Len(StorageDefaultEngines)
  /\ app[Editor].search.currentEngineIndex = 0

----------------------------------------------------------------------------
(* Search.performSearch *)

\* The text typed into the search box has this many characters at most.
MaxQuery == 2

\* The page performs this many searches at most.
MaxSearches == 1

\* The characters typed: a blank, a letter, and two that mean something to
\* String.prototype.replace.
QueryChars == {" ", "a", "$", "&"}

RECURSIVE Typed(_)
Typed(n) ==
  IF n = 0 THEN {<<>>}
  ELSE Typed(n - 1) \cup {Append(s, c) : s \in Typed(n - 1), c \in QueryChars}

\* The sequences of blocks, joined.
RECURSIVE Concat(_)
Concat(seqs) == IF seqs = <<>> THEN <<>> ELSE Head(seqs) \o Concat(Tail(seqs))

\* encodeURI, which leaves "$" and "&" as they are.
encodeURI(s) ==
  Concat([k \in 1..Len(s) |->
            CASE s[k] = " " -> <<"%", "2", "0">>
              [] s[k] = "%" -> <<"%", "2", "5">>
              [] OTHER -> <<s[k]>>])

\* encodeURIComponent: letters stay; blank, "$", "&" and "%" are escaped.
encodeURIComponent(s) ==
  Concat([k \in 1..Len(s) |->
            CASE s[k] = " " -> <<"%", "2", "0">>
              [] s[k] = "$" -> <<"%", "2", "4">>
              [] s[k] = "&" -> <<"%", "2", "6">>
              [] s[k] = "%" -> <<"%", "2", "5">>
              [] OTHER -> <<s[k]>>])

\* The replacement text of String.prototype.replace: "$$" stands for "$" and
\* "$&" for the matched text.
RECURSIVE GetSubstitution(_, _)
GetSubstitution(matched, replacement) ==
  IF replacement = <<>> THEN <<>>
  ELSE IF Head(replacement) = "$" /\ Len(replacement) >= 2
          /\ replacement[2] = "$"
  THEN <<"$">> \o GetSubstitution(matched, Tail(Tail(replacement)))
  ELSE IF Head(replacement) = "$" /\ Len(replacement) >= 2
          /\ replacement[2] = "&"
  THEN matched \o GetSubstitution(matched, Tail(Tail(replacement)))
  ELSE <<Head(replacement)>> \o GetSubstitution(matched, Tail(replacement))

\* url.indexOf('%s'), 1-based; 0 if there is none.
IndexOfToken(url) ==
  IF Includes(url)
  THEN CHOOSE i \in 1..(Len(url) - 1) :
         /\ url[i] = "%" /\ url[i + 1] = "s"
         /\ \A j \in 1..(i - 1) : ~(url[j] = "%" /\ url[j + 1] = "s")
  ELSE 0

\* url.replace('%s', replacement): a string pattern matches once.
ReplaceToken(url, replacement) ==
  LET i == IndexOfToken(url)
  IN  IF i = 0 THEN url
      ELSE SubSeq(url, 1, i - 1)
           \o GetSubstitution(<<"%", "s">>, replacement)
           \o SubSeq(url, i + 2, Len(url))

\* Search.performSearch() with `value` in the search box: the page afterwards.
performSearch(tab, value) ==
  LET query == Trim(value)
      s == tab.search
      i == s.currentEngineIndex + 1
  IN  IF query = <<>> THEN tab
      ELSE IF i \notin 1..Len(s.engines) THEN tab
      ELSE LET searchUrl == ReplaceToken(s.engines[i].url,
                                         encodeURIComponent(query))
           IN  IF s.openIn = Str("current-tab")
               THEN [tab EXCEPT !.view.href = Url(searchUrl)]
               ELSE [tab EXCEPT !.view.opened = Append(@, Url(searchUrl))]

\* Enter is pressed in the search box of page t, which holds `value`.
PerformSearch(t, value) ==
  /\ Ready
  /\ app[t].search # Null
  /\ app[t].view.href = Unset
  /\ Len(app[t].view.opened) < MaxSearches
  /\ app' = [app EXCEPT ![t] = performSearch(@, value)]
  /\ last' = [op |-> "performSearch", tab |-> t, value |-> value]
  /\ UNCHANGED <<storeV, initV, got, calls, writeOrder, inbox>>
  /\ AppFrame

\* Engine lists with a template that has the token twice, and one without it.
TokenLists ==
  {<<Engine("twice", <<"Twice">>,
            <<"https://t.example/?q=", "%", "s", "&again=", "%", "s">>,
            <<"t.ico">>)>>,
   <<Engine("plain", <<"Plain">>, <<"https://p.example/">>, <<"p.ico">>)>>}

\* The documents the page may have loaded: the defaults (a new view), the
\* edited document (the current view), one without engines, and the lists
\* above.
SearchStores ==
  {DefaultSettings, EditedDoc,
   PutKey(DefaultSettings, "engines", "list", Arr(<<>>))}
  \cup {PutKey(PutKey(DefaultSettings, "engines", "list", Arr(l)),
               "engines", "default", Str(l[1].id)) : l \in TokenLists}

InitSearch ==
  /\ store \in SearchStores
  /\ defaultSettings = DefaultSettings
  /\ initPc = "done"
  /\ initRet = store
  /\ mergeRet = Undef
  /\ persisted = Undef
  /\ got = NoGot
  /\ calls = <<>>
  /\ writeOrder = <<>>
  /\ InitSingle
  /\ app = [t \in Tabs |-> IF t = Editor THEN BootedTab(store) ELSE FreshTab]
  /\ inbox = [t \in Tabs |-> <<>>]
  /\ last = NoOp

NextSearch == \E value \in Typed(MaxQuery) : PerformSearch(Editor, value)

SpecSearch == InitSearch /\ [][NextSearch]_vars

\* The query with every character but the letter written as its escape.
PercentEncoded(q) ==
  Concat([k \in 1..Len(q) |->
            IF q[k] = "a" THEN <<"a">>
            ELSE <<"%", "2",
                   CASE q[k] = " " -> "0" [] q[k] = "$" -> "4"
                     [] q[k] = "&" -> "6" [] OTHER -> "5">>])

\* u is the template with its first token, and no other, replaced by enc.
FirstReplaced(u, template, enc) ==
  \E i \in 1..(Len(template) - 1) :
    /\ template[i] = "%" /\ template[i + 1] = "s"
    /\ ~Includes(SubSeq(template, 1, i))
    /\ u = SubSeq(template, 1, i - 1) \o enc
             \o SubSeq(template, i + 2, Len(template))

\* C25: performSearch with a query that is not blank and with a selected
\* engine opens the engine's template with its first %s, and only that one,
\* replaced by the percent-encoded trimmed query: in the current view exactly
\* when openIn is 'current-tab', in a new view otherwise.  With a blank query
\* or without a selected engine it does nothing.
C25_PerformSearch ==
  [][ \A t \in Tabs :
        (last'.op = "performSearch" /\ last'.tab = t) =>
          LET q == Trim(last'.value)
              s == app[t].search
              i == s.currentEngineIndex + 1
              old == app[t].view
              new == app'[t].view
          IN  IF q = <<>> \/ i \notin 1..Len(s.engines)
              THEN app'[t] = app[t]
              ELSE LET shown == IF s.openIn = Str("current-tab")
                                THEN new.href
                                ELSE IF new.opened = <<>> THEN Unset
                                ELSE new.opened[Len(new.opened)]
                   IN  /\ shown.t = "url"
                       /\ \/ FirstReplaced(shown.v, s.engines[i].url,
                                           PercentEncoded(q))
                          \/ /\ ~Includes(s.engines[i].url)
                             /\ shown.v = s.engines[i].url
                       /\ IF s.openIn = Str("current-tab")
                          THEN new = [old EXCEPT !.href = shown]
                          ELSE new = [old EXCEPT !.opened = Append(@, shown)]
                       /\ app'[t] = [app[t] EXCEPT !.view = new]
    ]_vars

\* "$&" was searched with the template that has the token twice: a new view
\* shows the template with the first token replaced by %24%26.
C25_Witness ==
  /\ last.op = "performSearch"
  /\ last.value = <<"$", "&">>
  /\ app[Editor].view =
       [href |-> Unset,
        opened |-> << Url(<<"https://t.example/?q=", "%", "2", "4", "%", "2",
                            "6", "&again=", "%", "s">>) >>]

\* " a" was searched from the edited document: the current view shows it.
C25_CurrentWitness ==
  /\ last.op = "performSearch"
  /\ last.value = <<" ", "a">>
  /\ app[Editor].view =
       [href |-> Url(<<"https://www.google.com/search?q=", "a">>),
        opened |-> <<>>]

----------------------------------------------------------------------------
(* Wallpaper.uploadWallpaper *)

\* Files are chosen for upload this many times at most.
MaxUploads == 2

\* 5 * 1024 * 1024 bytes.
MaxFileSize == 5242880

\* A File: its MIME type as a sequence of blocks, its size in bytes and its
\* content in base64.
File(type, size) == [type |-> type, size |-> size, body |-> "AAAA"]

\* A PNG image, a text, a disk image (.iso) and a file of unknown type.
FileTypes ==
  {<<"image", "/png">>, <<"text/plain">>, <<"application/x-cd-", "image">>,
   <<>>}

Files == {File(ty, size) : ty \in FileTypes,
                           size \in {1, MaxFileSize, MaxFileSize + 1}}

\* file.type.match('image.*'): the pattern is looked for anywhere in the type.
TypeMatches(type) == \E i \in 1..Len(type) : type[i] = "image"

\* The blocks of a string, joined.
RECURSIVE Joined(_)
Joined(s) == IF s = <<>> THEN "" ELSE Head(s) \o Joined(Tail(s))

\* FileReader.readAsDataURL(file): e.target.result.
DataUrl(file) == Str("data:" \o Joined(file.type) \o ";base64," \o file.body)

\* Wallpaper.setWallpaper(imageUrl), before its save.
setWallpaper(wallpaper, imageUrl) ==
  LET cs == Obj(("imageUrl" :> imageUrl) @@ wallpaper.currentSettings.v)
  IN  [wallpaper EXCEPT !.currentSettings = cs,
                        !.rendered = applyWallpaper(cs)]

\* A file is chosen in the panel: handleWallpaperUpload emits wallpaperUpload
\* and the listener calls uploadWallpaper(file), which rejects the file or
\* starts reading it.  A rejection is shown in an alert.
UploadWallpaper(t, file) ==
  /\ Ready
  /\ app[t].bound
  /\ LET verdict == IF ~TypeMatches(file.type) THEN "type"
                    ELSE IF file.size > MaxFileSize THEN "size"
                    ELSE "reading"
     IN  /\ app' = IF verdict = "reading"
                   THEN [app EXCEPT ![t].reads = Append(@, file)]
                   ELSE app
         /\ last' = [op |-> "uploadWallpaper", tab |-> t, file |-> file,
                     verdict |-> verdict]
  /\ UNCHANGED <<storeV, initV, got, calls, writeOrder, inbox>>
  /\ AppFrame

\* The FileReader of page t has read its k-th file (onload: setWallpaper runs
\* up to its await) or has failed (onerror: the upload is rejected).
FileRead(t, k, ok) ==
  /\ Ready
  /\ k \in 1..Len(app[t].reads)
  /\ LET file == app[t].reads[k]
         rest == RemoveAt(app[t].reads, k)
     IN  /\ IF ok
            THEN /\ app' = [app EXCEPT
                              ![t].reads = rest,
                              ![t].wallpaper = setWallpaper(@, DataUrl(file))]
                 /\ calls' = Append(calls,
                               PageCall(t, "page.wallpaper", "wallpaper",
                                        "imageUrl" :> DataUrl(file)))
            ELSE /\ app' = [app EXCEPT ![t].reads = rest]
                 /\ UNCHANGED calls
         /\ last' = [op |-> "fileRead", tab |-> t, file |-> file,
                     verdict |-> IF ok THEN "read" ELSE "readFailed"]
  /\ UNCHANGED <<storeV, initV, got, writeOrder, inbox>>
  /\ AppFrame

\* The files chosen so far: those being read and those read.
Chosen(t) ==
  Len(app[t].reads)
  + Len(SelectSeq(calls, LAMBDA c : c.owner = "page.wallpaper"))

NextUpload ==
  \/ \E f \in Files : Chosen(Editor) < MaxUploads /\ UploadWallpaper(Editor, f)
  \/ \E k \in 1..MaxUploads, ok \in BOOLEAN : FileRead(Editor, k, ok)
  \/ \E i \in CallIds : UpdateCategoryRead(i)
  \/ \E i \in CallIds, ok \in BOOLEAN : PageCallSettled(i, ok)
  \/ \E t \in Tabs : Len(calls) <= MaxUploads /\ HandleStorageChange(t)

SpecUpload == InitNotify /\ [][NextUpload]_vars

\* The type names an image: it begins with "image/".
IsImageType(type) ==
  Len(type) >= 2 /\ type[1] = "image" /\ type[2] \in {"/png", "/jpeg"}

\* C26: uploadWallpaper rejects a file whose type is not an image and a file
\* of more than 5 MB, and the upload is rejected when the read fails; in each
\* case Wallpaper.currentSettings, what is drawn and the stored document are
\* as before and nothing is saved.  An image of exactly 5 MB is accepted.
C26_UploadRejects ==
  [][ \A t \in Tabs :
        LET f == last'.file
            untouched == /\ app'[t].wallpaper = app[t].wallpaper
                         /\ store' = store
                         /\ calls' = calls
        IN  /\ (last'.op = "uploadWallpaper" /\ last'.tab = t) =>
                 /\ ~IsImageType(f.type)
                      => last'.verdict = "type" /\ untouched
                 /\ (IsImageType(f.type) /\ f.size > MaxFileSize)
                      => last'.verdict = "size" /\ untouched
                 /\ (IsImageType(f.type) /\ f.size <= MaxFileSize)
                      => /\ last'.verdict = "reading"
                         /\ app'[t].reads = Append(app[t].reads, f)
            /\ ( /\ last'.op = "fileRead" /\ last'.tab = t
                 /\ last'.verdict = "readFailed" ) => untouched
    ]_vars

----------------------------------------------------------------------------
(* Theme of one page *)

\* A mode outside the enumeration.
OtherMode == Str("blue")

\* The defaults with the given theme mode stored.
WithMode(mode) == PutKey(DefaultSettings, "theme", "mode", mode)

\* The documents the page may open on, and those other pages write.
ThemeStores == {WithMode(mode) : mode \in ThemeModes \cup {OtherMode}}

\* The system switches between its light and its dark appearance: the media
\* query's change listener, if registered, runs in page t.
SystemThemeChanged(t) ==
  /\ Ready
  /\ app[t].theme # Null
  /\ LET flipped == [app[t].theme EXCEPT !.prefersDark = ~@]
     IN  app' = [app EXCEPT
                   ![t].theme =
                      IF flipped.mediaQuery # Null
                         /\ flipped.currentTheme = Str("system")
                      THEN applyTheme(flipped) ELSE flipped]
  /\ last' = [op |-> "systemThemeChanged", tab |-> t]
  /\ UNCHANGED <<storeV, initV, got, calls, writeOrder, inbox>>
  /\ AppFrame

\* App.init() of the page has completed while Theme.init() still waits for
\* its read; the system is light or dark.
InitTheme ==
  /\ store \in ThemeStores
  /\ defaultSettings = DefaultSettings
  /\ initPc = "done"
  /\ initRet = store
  /\ mergeRet = Undef
  /\ persisted = Undef
  /\ got = NoGot
  /\ calls = <<>>
  /\ writeOrder = <<>>
  /\ InitSingle
  /\ \E dark \in BOOLEAN :
       app = [t \in Tabs |->
                IF t = Editor
                THEN [BootedTab(store) EXCEPT
                        !.theme = [ThemeNew EXCEPT !.prefersDark = dark],
                        !.loads = {"theme"}]
                ELSE FreshTab]
  /\ inbox = [t \in Tabs |-> <<>>]
  /\ last = NoOp

NextTheme ==
  \/ \E ok \in BOOLEAN : ThemeLoaded(Editor, ok)
  \/ SystemThemeChanged(Editor)
  \/ \E doc \in ThemeStores : RemoteWrite(doc)
  \/ \E t \in Tabs : Len(calls) < MaxRemote /\ HandleStorageChange(t)
  \/ \E i \in CallIds : UpdateCategoryRead(i)
  \/ \E i \in CallIds, ok \in BOOLEAN : PageCallSettled(i, ok)

SpecTheme == InitTheme /\ [][NextTheme]_vars

\* Theme.init() of page t has run to its end.
ThemeReady(t) ==
  /\ app[t].theme # Null
  /\ "theme" \notin app[t].loads
  /\ app[t].theme.mediaQuery # Null

DataThemeRight(t) ==
  ThemeReady(t) =>
    LET th == app[t].theme
    IN  /\ th.currentTheme \in {Str("light"), Str("dark")}
             => th.dataTheme = th.currentTheme
        /\ th.currentTheme = Str("system")
             => th.dataTheme = IF th.prefersDark THEN Str("dark")
                               ELSE Str("light")

\* C30: once Theme.init() has run, data-theme is the mode when the mode is
\* light or dark, and the system's theme (dark when the media query matches,
\* light otherwise) when the mode is system: after the load, after every
\* setTheme and after every change of the system's preference.  A change of
\* the system's preference changes data-theme only when the mode is system.
C30_DataThemeFollows ==
  /\ [](\A t \in Tabs : DataThemeRight(t))
  /\ [][ \A t \in Tabs :
          ( /\ last'.op = "systemThemeChanged" /\ last'.tab = t
            /\ app[t].theme.currentTheme # Str("system") )
           => app'[t].theme.dataTheme = app[t].theme.dataTheme ]_vars

\* The system turned dark while the mode, set to system by a notification
\* after a stored 'light' had been loaded, was system: data-theme is dark.
C30_Witness ==
  /\ ThemeReady(Editor)
  /\ last.op = "systemThemeChanged"
  /\ app[Editor].theme.currentTheme = Str("system")
  /\ app[Editor].theme.prefersDark
  /\ app[Editor].theme.dataTheme = Str("dark")
  /\ \E i \in CallIds : calls[i].owner = "page.theme"

----------------------------------------------------------------------------
(* The overlay opacity set from the panel *)

\* The positions of the overlay slider tried: both ends of 0-0.8 and two
\* positions between, in tenths.
OverlayEdits ==
  {Edit("wallpaper", "overlayOpacity", Num(v),
        "wallpaperOverlayOpacityChanged") : v \in {0, 1, 5, 8}}

NextOverlay ==
  \/ \E e \in OverlayEdits : PanelOps < MaxEdits /\ PanelEdit(Editor, e)
  \/ \E i \in CallIds : UpdateCategoryRead(i)
  \/ \E i \in CallIds, ok \in BOOLEAN : PanelCallSettled(i, ok)
  \/ \E i \in CallIds, ok \in BOOLEAN : PageCallSettled(i, ok)
  \/ \E t \in Tabs : Len(calls) <= 2 * MaxEdits /\ HandleStorageChange(t)

SpecOverlay == InitNotify /\ [][NextOverlay]_vars

\* C29: when the save of setOverlayOpacity(v) lands, for v from 0 to 0.8, the
\* alpha drawn on the wallpaper overlay is v and the stored
\* wallpaper.overlayOpacity is v.
C29_OverlayOpacity ==
  [][ \A i \in CallIds :
        ( /\ calls[i].owner = "page.wallpaper"
          /\ DOMAIN calls[i].updates = {"overlayOpacity"}
          /\ calls[i].st = "set" /\ calls'[i].st = "ok" )
         => LET v == calls[i].updates["overlayOpacity"]
                t == calls[i].env.tab
            IN  /\ Prop(Prop(store', "wallpaper"), "overlayOpacity") = v
                /\ app'[t].wallpaper.currentSettings.v["overlayOpacity"] = v
                /\ app'[t].wallpaper.rendered.overlay = v
    ]_vars

----------------------------------------------------------------------------
(* The sliders of the Settings panel and their debounce timers *)

\* The sliders receive this many input events at most.
MaxInputs == 2

\* What the update method of a slider writes and emits, and whether it parses
\* the slider's text with parseInt (otherwise with parseFloat).
SliderEdit(s) ==
  CASE s = "searchWidth" ->
         [cat |-> "general", key |-> "searchWidth",
          event |-> "searchWidthChanged", int |-> FALSE]
    [] s = "searchHeight" ->
         [cat |-> "general", key |-> "searchHeight",
          event |-> "searchHeightChanged", int |-> FALSE]
    [] s = "searchRadius" ->
         [cat |-> "general", key |-> "searchRadius",
          event |-> "searchRadiusChanged", int |-> TRUE]
    [] s = "searchOpacity" ->
         [cat |-> "general", key |-> "searchOpacity",
          event |-> "searchOpacityChanged", int |-> FALSE]
    [] s = "wallpaperBlur" ->
         [cat |-> "wallpaper", key |-> "blur",
          event |-> "wallpaperBlurChanged", int |-> TRUE]
    [] s = "wallpaperOverlayOpacity" ->
         [cat |-> "wallpaper", key |-> "overlayOpacity",
          event |-> "wallpaperOverlayOpacityChanged", int |-> FALSE]

\* The texts a slider reports as its value, with the number each stands for
\* in the model (opacities are counted in tenths).
SliderTexts(s) ==
  CASE s = "searchWidth" -> {<<"50", 50>>, <<"60", 60>>}
    [] s = "searchHeight" -> {<<"5", 5>>}
    [] s = "searchRadius" -> {<<"10", 10>>}
    [] s = "searchOpacity" -> {<<"0.5", 5>>}
    [] s = "wallpaperBlur" -> {<<"10", 10>>}
    [] s = "wallpaperOverlayOpacity" -> {<<"0.5", 5>>}

\* parseFloat(text) and parseInt(text) for the text of slider s.
ParseSlider(s, text) ==
  LET known == {p \in SliderTexts(s) : p[1] = text}
  IN  IF known = {} THEN Undef ELSE Num((CHOOSE p \in known : TRUE)[2])

\* An input handler that sets its timer without clearing the one before.
SliderInputKeepsTimer(panel, s, value) ==
  [panel EXCEPT
     !.timers = @ \cup {[id |-> panel.nextId, slider |-> s, value |-> value]},
     !.debounce[s] = panel.nextId,
     !.nextId = @ + 1]

\* The 'input' listener of slider s: clearTimeout of the timer noted in the
\* debounce field, if any, then setTimeout(() => update(value), 300).
SliderInputHandler(panel, s, value) ==
  [panel EXCEPT
     !.timers = {tm \in @ : panel.debounce[s] = 0 \/ tm.id # panel.debounce[s]}
                \cup {[id |-> panel.nextId, slider |-> s, value |-> value]},
     !.debounce[s] = panel.nextId,
     !.nextId = @ + 1]

\* The slider s of page t is moved to `value`.
SliderInput(t, s, value) ==
  /\ Ready
  /\ app[t].bound
  /\ app[t].panel.nextId <= MaxInputs
  /\ app' = [app EXCEPT ![t].panel = SliderInputHandler(@, s, value)]
  /\ last' = [op |-> "input", tab |-> t, slider |-> s, value |-> value]
  /\ UNCHANGED <<storeV, initV, got, calls, writeOrder, inbox>>
  /\ AppFrame

\* A pending timer of page t fires: the update method of its slider runs up
\* to its await.
TimerFires(t, tm) ==
  /\ Ready
  /\ tm \in app[t].panel.timers
  /\ LET e == SliderEdit(tm.slider)
         val == ParseSlider(tm.slider, tm.value)
     IN  calls' = Append(calls,
                    Call("page.panel", e.cat, e.key :> val, "get", Undef,
                         [tab |-> t, emit |-> e.event, detail |-> val]))
  /\ app' = [app EXCEPT ![t].panel.timers = @ \ {tm}]
  /\ last' = [op |-> "timer", tab |-> t, slider |-> tm.slider,
              value |-> tm.value]
  /\ UNCHANGED <<storeV, initV, got, writeOrder, inbox>>
  /\ AppFrame

\* Every timer the page may have set.
TimerSpace ==
  {[id |-> n, slider |-> s, value |-> p[1]] :
     n \in 1..MaxInputs, s \in Sliders, p \in UNION {SliderTexts(x) : x \in Sliders}}

\* The sliders moved: one of the search box and one of the wallpaper.
SlidersMoved == {"searchWidth", "wallpaperBlur"}

NextDebounce ==
  \/ \E s \in Sliders :
       \E p \in SliderTexts(s) : SliderInput(Editor, s, p[1])
  \/ \E tm \in TimerSpace : PanelOps < MaxEdits /\ TimerFires(Editor, tm)
  \/ \E i \in CallIds : UpdateCategoryRead(i)
  \/ \E i \in CallIds : PanelCallSettled(i, TRUE)
  \/ \E i \in CallIds : PageCallSettled(i, TRUE)

SpecDebounce == InitNotify /\ [][NextDebounce]_vars

\* The timers of slider s pending in page t.
PendingTimers(t, s) == {tm \in app[t].panel.timers : tm.slider = s}

----------------------------------------------------------------------------
(* Theme.toggleTheme *)

\* The page toggles the theme this many times at most.
MaxToggles == 3

\* A toggle that stops at the last mode of the list instead of wrapping.
toggleThemeStops(theme) ==
  LET themes == <<Str("system"), Str("light"), Str("dark")>>
      found == {i \in 1..Len(themes) : themes[i] = theme.currentTheme}
      currentIndex == IF found = {} THEN -1 ELSE (CHOOSE i \in found : TRUE) - 1
      nextIndex == IF currentIndex + 1 < Len(themes) THEN currentIndex + 1
                   ELSE currentIndex
  IN  themes[nextIndex + 1]

\* Theme.toggleTheme(): the mode handed to setTheme.  indexOf gives -1 for a
\* mode that is not in the list.
toggleTheme(theme) ==
  LET themes == <<Str("system"), Str("light"), Str("dark")>>
      found == {i \in 1..Len(themes) : themes[i] = theme.currentTheme}
      currentIndex == IF found = {} THEN -1 ELSE (CHOOSE i \in found : TRUE) - 1
      nextIndex == (currentIndex + 1) % Len(themes)
  IN  themes[nextIndex + 1]

\* The calls of toggleTheme, oldest first.
Toggles == {i \in 1..Len(calls) : calls[i].env.emit = "toggle"}

\* `await theme.toggleTheme()` in page t, once the toggle before it has
\* settled: it runs up to the await inside setTheme, and its call keeps the
\* mode the toggle started from.
ToggleTheme(t) ==
  /\ Ready
  /\ app[t].theme # Null
  /\ Cardinality(Toggles) < MaxToggles
  /\ \A i \in Toggles : ~Pending(i)
  /\ LET from == app[t].theme.currentTheme
         to == toggleTheme(app[t].theme)
     IN  /\ app' = [app EXCEPT ![t].theme = setTheme(@, to)]
         /\ calls' = calls \o
               [k \in DOMAIN setThemeCalls(t, to) |->
                  [setThemeCalls(t, to)[k] EXCEPT
                     !.env = [tab |-> t, emit |-> "toggle", detail |-> from]]]
         /\ last' = [op |-> "toggleTheme", tab |-> t, from |-> from, to |-> to]
  /\ UNCHANGED <<storeV, initV, got, writeOrder, inbox>>
  /\ AppFrame

\* The page is open on a stored mode, its Theme loaded.
InitToggle ==
  /\ store \in ThemeStores
  /\ defaultSettings = DefaultSettings
  /\ initPc = "done"
  /\ initRet = store
  /\ mergeRet = Undef
  /\ persisted = Undef
  /\ got = NoGot
  /\ calls = <<>>
  /\ writeOrder = <<>>
  /\ InitSingle
  /\ app = [t \in Tabs |-> IF t = Editor THEN BootedTab(store) ELSE FreshTab]
  /\ inbox = [t \in Tabs |-> <<>>]
  /\ last = NoOp

NextToggle ==
  \/ ToggleTheme(Editor)
  \/ \E t \in Tabs : Len(calls) < MaxToggles /\ HandleStorageChange(t)
  \/ \E i \in CallIds : UpdateCategoryRead(i)
  \/ \E i \in CallIds, ok \in BOOLEAN :
       (ok \/ i \in Toggles) /\ PageCallSettled(i, ok)

SpecToggle == InitToggle /\ [][NextToggle]_vars

\* The mode after `mode` in the cycle system -> light -> dark -> system.
CycleNext(mode) ==
  CASE mode = Str("system") -> Str("light")
    [] mode = Str("light") -> Str("dark")
    [] mode = Str("dark") -> Str("system")

\* Toggles i, j and k follow one another, each starting from the mode the
\* one before it set.
Chained(i, j, k) ==
  /\ i < j /\ j < k
  /\ \A m \in Toggles : m <= i \/ m = j \/ m >= k
  /\ calls[j].env.detail = calls[i].updates["mode"]
  /\ calls[k].env.detail = calls[j].updates["mode"]

\* C31: toggleTheme moves the mode in the cycle system -> light -> dark ->
\* system: a toggle from one of the three modes sets the next mode of the
\* cycle and issues the write of it, three toggles that follow one another
\* end on the mode the first started from, and the write of a toggle, once
\* it has landed, leaves the toggle's mode stored.
C31_ToggleCycle ==
  /\ [](\A i \in Toggles :
          /\ calls[i].env.detail \in ThemeModes
               => calls[i].updates["mode"] = CycleNext(calls[i].env.detail)
          /\ \A j, k \in Toggles :
               (Chained(i, j, k) /\ calls[i].env.detail \in ThemeModes)
                 => calls[k].updates["mode"] = calls[i].env.detail)
  /\ [][ /\ \A t \in Tabs :
              (last'.op = "toggleTheme" /\ last'.tab = t)
                => /\ app'[t].theme.currentTheme = last'.to
                   /\ Len(calls') = Len(calls) + 1
                   /\ calls'[Len(calls')].cat = "theme"
                   /\ calls'[Len(calls')].updates = ("mode" :> last'.to)
                   /\ (last'.from \in ThemeModes
                         => last'.to = CycleNext(last'.from))
         /\ \A i \in Toggles :
              (calls[i].st = "set" /\ calls'[i].st = "ok")
                => store'.v["theme"].v["mode"] = calls[i].updates["mode"]
     ]_vars

\* Three toggles followed one another from the stored mode and were stored:
\* the mode is the first one again.
C31_Witness ==
  /\ Cardinality(Toggles) = 3
  /\ \A i \in Toggles : calls[i].st = "ok"
  /\ \E i, j, k \in Toggles :
       /\ Chained(i, j, k)
       /\ calls[i].env.detail \in ThemeModes
       /\ app[Editor].theme.currentTheme = calls[i].env.detail
       /\ store.v["theme"].v["mode"] = calls[i].env.detail

----------------------------------------------------------------------------
(* The frame of updateCategory *)

\* The documents the updates are made over: nothing stored, the defaults,
\* edited documents and a partial one.
FrameStores == RemoteDocs \cup {Undef, DefaultSettings}

\* The updates the callers pass: one of every category.
FrameInputs ==
  UpdateInputs
    \cup { <<"wallpaper", "blur" :> Num(10)>>,
           <<"engines", "default" :> Str("bing")>> }

InitFrame ==
  /\ store \in FrameStores
  /\ defaultSettings = DefaultSettings
  /\ initPc = "done"
  /\ initRet = DefaultSettings
  /\ mergeRet = Undef
  /\ persisted = Undef
  /\ got = NoGot
  /\ calls = <<>>
  /\ writeOrder = <<>>
  /\ InitModules

NextFrame ==
  \/ \E u \in FrameInputs : UpdateCategoryCall(u[1], u[2])
  \/ \E i \in CallIds : UpdateCategoryRead(i)
  \/ \E i \in CallIds, ok \in BOOLEAN : CallerSettled(i, ok)

SpecFrame == InitFrame /\ [][NextFrame]_vars

\* The write of call i lands in this step, no other write having landed since
\* the call read the document.
LandsClean(i) ==
  /\ calls[i].st = "set"
  /\ calls'[i].st = "ok"
  /\ store = calls[i].read

\* C32: when an updateCategory(cat, updates) resolves and no other write
\* landed between its read and its write, every key of the stored document
\* other than cat holds after the write what it held before, and no other key
\* has appeared.
C32_OtherCategoriesKept ==
  [][ \A i \in CallIds :
        LandsClean(i) =>
          \A c \in (Categories \cup Keys(store) \cup Keys(store'))
                     \ {calls[i].cat} :
            Prop(store', c) = Prop(store, c) ]_vars

\* An update landed over a document that held other categories, after
\* another call had been issued and read, and its category changed.
C32_Witness ==
  \E i \in CallIds :
    /\ calls[i].st = "ok"
    /\ calls[i].clean
    /\ Keys(calls[i].read) \ {calls[i].cat} # {}
    /\ store = calls[i].doc
    /\ Prop(store, calls[i].cat) # Prop(calls[i].read, calls[i].cat)
    /\ \A c \in Keys(calls[i].read) \ {calls[i].cat} :
         Prop(store, c) = Prop(calls[i].read, c)

----------------------------------------------------------------------------
(* StorageManager.onChanged: the listener on chrome.storage.onChanged *)

\* StorageManager.storageKey, and a key some other code keeps.
storageKey == "tabExtensionSettings"
OtherKey == "other"

\* The storage areas whose changes chrome.storage.onChanged reports.
Namespaces == {"local", "sync"}

\* A StorageChange: oldValue and newValue, each absent (Undef) when the key
\* had no value before or has none after.
Change(old, new) == [oldValue |-> old, newValue |-> new]

\* A listener that does not look at the storage area.
onChangedAnyArea(changes, namespace) ==
  IF storageKey \in DOMAIN changes
  THEN <<Note(changes[storageKey].newValue, changes[storageKey].oldValue)>>
  ELSE <<>>

\* The listener StorageManager.onChanged(callback) adds: the arguments of the
\* calls of `callback` it makes for one event, (newValue, oldValue) each.
onChangedListener(changes, namespace) ==
  IF namespace = "local" /\ storageKey \in DOMAIN changes
  THEN <<Note(changes[storageKey].newValue, changes[storageKey].oldValue)>>
  ELSE <<>>

\* The changes one event reports beside the tracked key's: none, or another
\* key's.
OtherChanges == {<<>>, OtherKey :> Change(Undef, Num(1))}

\* The events of page t that are not changes of the stored document: changes
\* of other keys of the local area, and changes of other areas, the tracked
\* key's name included.
ForeignEvents ==
  {[changes |-> c, namespace |-> "local"] : c \in OtherChanges \ {<<>>}}
    \cup
  {[changes |-> (storageKey :> Change(old, new)) @@ c, namespace |-> ns] :
     old \in {DefaultSettings}, new \in {Undef, EditedDoc},
     c \in OtherChanges, ns \in Namespaces \ {"local"}}

\* The event that reports the oldest pending change of the stored document
\* of page t, alone or with the change of another key made by the same set().
TrackedEvents(t) ==
  IF inbox[t] = <<>> THEN {}
  ELSE {[changes |-> (storageKey :> Change(Head(inbox[t]).old,
                                           Head(inbox[t]).new)) @@ c,
         namespace |-> "local"] : c \in OtherChanges}

\* chrome.storage.onChanged fires in page t with (changes, namespace): every
\* listener added through StorageManager.onChanged runs, and calls its
\* callback or not.
StorageEvent(t, ev) ==
  /\ Ready
  /\ app[t].listeners # {}
  /\ ev \in TrackedEvents(t) \cup ForeignEvents
  /\ LET args == onChangedListener(ev.changes, ev.namespace)
     IN  /\ app' = [app EXCEPT
                      ![t] = IF args = <<>> THEN @ ELSE RunListeners(@, args[1])]
         /\ calls' = calls \o
                       (IF args # <<>> /\ "app" \in app[t].listeners
                        THEN handleStorageChangeCalls(t, app[t], args[1].new)
                        ELSE <<>>)
         /\ last' = [op |-> "onChanged", tab |-> t, changes |-> ev.changes,
                     namespace |-> ev.namespace, args |-> args]
  /\ inbox' = [inbox EXCEPT
                 ![t] = IF ev \in TrackedEvents(t) THEN Tail(@) ELSE @]
  /\ UNCHANGED <<storeV, initV, got, writeOrder>>
  /\ AppFrame

\* Every event the platform may raise in some page.
Events == UNION {TrackedEvents(t) : t \in Tabs} \cup ForeignEvents

NextEvents ==
  \/ \E doc \in RemoteDocs \cup {Undef} : RemoteWrite(doc)
  \/ \E t \in Tabs, ev \in Events :
       Len(calls) < MaxRemote /\ StorageEvent(t, ev)
  \/ \E i \in CallIds : UpdateCategoryRead(i)
  \/ \E i \in CallIds, ok \in BOOLEAN : PageCallSettled(i, ok)

SpecEvents == InitNotify /\ [][NextEvents]_vars

\* C33: the callback registered through StorageManager.onChanged is called
\* only for an event of the local area whose changes include the tracked
\* key, with that change's new value first and its old value second; for
\* any other event the page and its storage calls stay as they are.
C33_OnChangedFilter ==
  [][ \A t \in Tabs :
        (last'.op = "onChanged" /\ last'.tab = t) =>
          /\ last'.args # <<>>
               => /\ last'.namespace = "local"
                  /\ storageKey \in DOMAIN last'.changes
                  /\ last'.args =
                       <<[new |-> last'.changes[storageKey].newValue,
                          old |-> last'.changes[storageKey].oldValue]>>
                  /\ app'[t] = RunListeners(app[t], last'.args[1])
          /\ last'.args = <<>> => (app' = app /\ calls' = calls) ]_vars

\* The callback ran for a change of the stored document reported together
\* with another key's, and got the new document first: the page shows it.
C33_Witness ==
  /\ last.op = "onChanged"
  /\ last.namespace = "local"
  /\ OtherKey \in DOMAIN last.changes
  /\ last.args # <<>>
  /\ last.args[1].new = store
  /\ last.args[1].old = DefaultSettings
  /\ store = PutKey(DefaultSettings, "general", "searchOpacity", Num(5))
  /\ app[last.tab].style.opacity # BootedTab(DefaultSettings).style.opacity

\* An event of another area that names the tracked key did not reach the
\* callback.
C33_FilteredWitness ==
  /\ last.op = "onChanged"
  /\ last.namespace = "sync"
  /\ storageKey \in DOMAIN last.changes
  /\ last.args = <<>>

----------------------------------------------------------------------------
(* The index of Search into its engine list *)

\* The page issues this many saves of the selected engine at most.
MaxSelects == 1

\* Search.switchEngine(): the module afterwards.
switchEngine(search) ==
  IF ~Truthy(search.tabSwitchEnabled) \/ Len(search.engines) = 0 THEN search
  ELSE [search EXCEPT
          !.currentEngineIndex = NextIndex(@, Len(search.engines))]

\* The call switchEngine() makes through saveDefaultEngine.
switchEngineCalls(t, search) ==
  LET after == switchEngine(search)
  IN  IF after = search
         \/ after.currentEngineIndex + 1 \notin DOMAIN after.engines
      THEN <<>>
      ELSE <<PageCall(t, "page.search", "engines",
                      "default" :> Str(CurrentEngineId(after.engines,
                                         after.currentEngineIndex)))>>

\* The keydown handler of page t for the Tab key: switchEngine() runs when
\* tab switching is enabled.
PageTabKey(t) ==
  /\ Ready
  /\ app[t].search # Null
  /\ app' = [app EXCEPT ![t].search = switchEngine(@)]
  /\ calls' = calls \o switchEngineCalls(t, app[t].search)
  /\ last' = [op |-> "switchEngine", tab |-> t,
              was |-> app[t].search.currentEngineIndex]
  /\ UNCHANGED <<storeV, initV, got, writeOrder, inbox>>
  /\ AppFrame

\* The document of page t receives `event` with e.detail = detail, and the
\* listener of bindModuleEvents runs.
DocumentEvent(t, event, detail) ==
  /\ Ready
  /\ app[t].bound
  /\ app[t].search # Null
  /\ app' = [app EXCEPT ![t] = Dispatch(@, event, detail)]
  /\ calls' = calls \o DispatchCalls(t, app[t], event, detail)
  /\ last' = [op |-> "event", tab |-> t, event |-> event,
              was |-> app[t].search.currentEngineIndex]
  /\ UNCHANGED <<storeV, initV, got, writeOrder, inbox>>
  /\ AppFrame

\* The lists the page is handed: none, the first two engines of the default
\* list, and the default list without its first engine.
IndexLists ==
  {<<>>, SubSeq(StorageDefaultEngines, 1, 2), Tail(StorageDefaultEngines)}

\* The documents the page opens on and other pages write.
IndexStores ==
  {PutKey(PutKey(DefaultSettings, "engines", "list", Arr(l)),
          "engines", "default", Str(d)) :
     l \in {<<>>, StorageDefaultEngines, Tail(StorageDefaultEngines)},
     d \in {"duckduckgo"}}

\* The events about engines the panel emits.
EngineEvents ==
  {Event("defaultEngineChanged", Str(id)) : id \in {"baidu", "ghost"}}
    \cup {Event("enginesUpdated", Arr(l)) : l \in IndexLists}

\* App.init() of the page has completed while Search.init() is still waiting
\* for its first read.
InitIndex ==
  /\ store \in IndexStores
  /\ defaultSettings = DefaultSettings
  /\ initPc = "done"
  /\ initRet = store
  /\ mergeRet = Undef
  /\ persisted = Undef
  /\ got = NoGot
  /\ calls = <<>>
  /\ writeOrder = <<>>
  /\ InitSingle
  /\ app = [t \in Tabs |->
              IF t = Editor
              THEN [BootedTab(store) EXCEPT !.search = SearchNew,
                                            !.loads = {"engines"}]
              ELSE FreshTab]
  /\ inbox = [t \in Tabs |-> <<>>]
  /\ last = NoOp

NextIndexOps ==
  \/ SearchEnginesLoaded(Editor, TRUE)
  \/ SearchGeneralLoaded(Editor, TRUE)
  \/ Len(calls) < MaxSelects /\ PageTabKey(Editor)
  \/ \E ev \in EngineEvents :
       Len(calls) < MaxSelects /\ DocumentEvent(Editor, ev.event, ev.detail)
  \/ \E doc \in IndexStores :
       /\ StoredList(doc).v \notin {<<>>, StoredList(store).v}
       /\ RemoteWrite(doc)
  \/ \E t \in Tabs : Len(calls) < MaxSelects /\ HandleStorageChange(t)
  \/ \E i \in CallIds : UpdateCategoryRead(i)
  \/ \E i \in CallIds : PageCallSettled(i, TRUE)

SpecIndex == InitIndex /\ [][NextIndexOps]_vars

\* C34: after every operation of Search (loadEngineSettings, switchEngine,
\* setEngine and updateEngines, in any order, called by the keydown handler,
\* by the panel's events and by change notifications) currentEngineIndex is
\* 0 when the engine list is empty and otherwise at least 0 and less than
\* the length of the list.
C34_IndexInRange ==
  \A t \in Tabs :
    app[t].search # Null =>
      LET s == app[t].search
      IN  /\ Len(s.engines) = 0 => s.currentEngineIndex = 0
          /\ Len(s.engines) > 0 =>
               (0 <= s.currentEngineIndex
                  /\ s.currentEngineIndex < Len(s.engines))

\* updateEngines was handed a list that ends before the selected engine's
\* place: the index is 0 again.
C34_Witness ==
  /\ last.op = "event"
  /\ last.event = "enginesUpdated"
  /\ last.was > 0
  /\ last.was >= Len(app[last.tab].search.engines)
  /\ Len(app[last.tab].search.engines) > 0
  /\ app[last.tab].search.currentEngineIndex = 0

----------------------------------------------------------------------------
(* Claims about Engines.reorderEngines *)

\* How many entries of the list are e.
Occurrences(list, e) == Cardinality({i \in 1..Len(list) : list[i] = e})

\* Lists a and b hold the same engines, each as many times.
IsPermutation(a, b) ==
  /\ Len(a) = Len(b)
  /\ \A i \in 1..Len(b) : Occurrences(a, b[i]) = Occurrences(b, b[i])

\* C35: reorderEngines(ids) either throws and leaves the engine list as it
\* was (on its arguments, or after its write failed), or leaves a permutation
\* of the previous list, no engine dropped and none twice, in the order of
\* ids.
C35_ReorderPermutes ==
  [][ /\ last'.op = "reorderEngines"
           => /\ IsPermutation(engines', engines)
              /\ Ids(engines') = last'.ids
      /\ last'.op = "rejected" => engines' = engines
      /\ ( /\ last'.op = "rolled back"
           /\ calls[last'.call].owner = "reg.reorder" )
           => engines' = calls[last'.call].env.pre.engines ]_vars

----------------------------------------------------------------------------
(* The engine lists of the panels of two pages *)

\* What the panel of a page does to its engine list: the engine a saveEngine
\* adds, the engine it edits (its name), or the engine deleteEngine removes.
EngineOp(kind, id) == [kind |-> kind, id |-> id]

\* The engine page t adds: its id is `custom_${Date.now()}`, and the pages
\* add at different times.
AddedBy(t) ==
  Engine(CustomId(t), <<"Mine">>, <<"https://example.org/?q=", "%", "s">>,
         <<"assets/ui/search.svg">>)

\* Settings.engines after saveEngine (a push, or the entry replaced) or
\* deleteEngine (a filter), before the await.
PanelEnginesAfter(t, list, op) ==
  CASE op.kind = "add" -> Append(list, AddedBy(t))
    [] op.kind = "edit" ->
         [k \in DOMAIN list |->
            IF k = FindIndex(list, op.id)
            THEN [list[k] EXCEPT !.name = <<"Renamed">>] ELSE list[k]]
    [] op.kind = "delete" -> SelectSeq(list, LAMBDA e : e.id # op.id)

\* The engine calls page t's panel has made.
EngineOpsOf(t) ==
  {i \in 1..Len(calls) : /\ calls[i].owner = "page.panel"
                         /\ calls[i].cat = "engines"
                         /\ "list" \in DOMAIN calls[i].updates
                         /\ calls[i].env.tab = t}

\* saveEngine() or deleteEngine(id) in the panel of page t, up to the await:
\* the panel's own list is changed and handed to updateCategory as the whole
\* engines.list.  The panel waits for one save before the next.  The call
\* keeps what the panel did and how many writes had landed by then.
PanelEngineOp(t, op) ==
  /\ Ready
  /\ app[t].bound
  /\ Cardinality(EngineOpsOf(t)) < MaxEdits
  /\ \A i \in EngineOpsOf(t) : ~Pending(i)
  /\ op.kind = "add" \/ FindIndex(app[t].panel.engines, op.id) # 0
  /\ LET list == PanelEnginesAfter(t, app[t].panel.engines, op)
     IN  /\ app' = [app EXCEPT ![t].panel.engines = list]
         /\ calls' = Append(calls,
                       Call("page.panel", "engines", "list" :> Arr(list),
                            "get", Undef,
                            [tab |-> t, emit |-> "enginesUpdated",
                             detail |-> Arr(list), op |-> op,
                             writes |-> Len(writeOrder)]))
  /\ last' = [op |-> "engineOp", tab |-> t]
  /\ UNCHANGED <<storeV, initV, got, writeOrder, inbox>>
  /\ AppFrame

\* What the panels do: add an engine, rename bing, delete baidu.
EngineOps ==
  {EngineOp("add", "(new)"), EngineOp("edit", "bing"),
   EngineOp("delete", "baidu")}

NextShared ==
  \/ \E t \in Tabs, op \in EngineOps : PanelEngineOp(t, op)
  \/ \E i \in CallIds : UpdateCategoryRead(i)
  \/ \E i \in CallIds, ok \in BOOLEAN : PanelCallSettled(i, ok)
  \/ \E i \in CallIds : PageCallSettled(i, TRUE)
  \/ \E t \in Tabs : Len(calls) <= 2 * MaxEdits /\ HandleStorageChange(t)

SpecShared == InitTabs /\ [][NextShared]_vars

\* The ids of the stored engines.list.
StoredIds(doc) == IdSet(ListOr(StoredList(doc)))

\* Call i is an add of one page that was stored before the other page's
\* panel made call j, which is about a different engine.
AddedBefore(i, j) ==
  /\ i \in CallIds /\ j \in CallIds
  /\ calls[i].owner = "page.panel" /\ calls[j].owner = "page.panel"
  /\ "op" \in DOMAIN calls[i].env /\ "op" \in DOMAIN calls[j].env
  /\ calls[i].env.tab # calls[j].env.tab
  /\ calls[i].env.op.kind = "add"
  /\ calls[i].st = "ok"
  /\ \E k \in 1..calls[j].env.writes : writeOrder[k] = i
  /\ calls[j].env.op.id # CustomId(calls[i].env.tab)

\* C36: an engine that one page's panel added and stored stays in the stored
\* engines.list when the write of a later add, edit or delete of a different
\* engine, made in the other page's panel, lands.
C36_AddedEngineKept ==
  [][ \A i, j \in CallIds :
        ( /\ AddedBefore(i, j)
          /\ calls[j].st = "set" /\ calls'[j].st = "ok"
          /\ CustomId(calls[i].env.tab) \in StoredIds(store) )
          => CustomId(calls[i].env.tab) \in StoredIds(store') ]_vars

----------------------------------------------------------------------------
(* Claims about the end of App.init() *)

\* C37: when App.init() has set isInitialized, no module constructed in
\* initModules is still waiting for a read of its initial load, so that no
\* such load can overwrite what a handler applies afterwards.
C37_InitializedMeansLoaded ==
  \A t \in Tabs : app[t].isInitialized => app[t].loads = {}

----------------------------------------------------------------------------
(* The writes of handleStorageChange *)

\* The stored document of a page whose engines have all been deleted:
\* setEngine then finds no engine and saves nothing, and a notification
\* makes the one write of setTheme.
NoEnginesDoc == PutKey(DefaultSettings, "engines", "list", Arr(<<>>))

\* What the user chooses in the panel of the page, and what the user chooses
\* in a page outside the model.
EchoEdits == {Edit("theme", "mode", Str("dark"), "themeChanged")}
EchoRemote == {PutKey(NoEnginesDoc, "theme", "mode", Str("light"))}

\* The updateCategory of a page's module resolves or rejects, as in
\* PageCallSettled; the record of the call is dropped, and the write is left
\* out of writeOrder.
EchoSettled(i, ok) ==
  /\ Ready
  /\ i \in CallIds
  /\ calls[i].owner \in PageOwners
  /\ IF ok
     THEN /\ calls[i].st = "set"
          /\ store' = SetResult(store, calls[i].doc)
          /\ inbox' = Notified(inbox, store, SetResult(store, calls[i].doc))
     ELSE /\ Pending(i)
          /\ UNCHANGED <<store, inbox>>
  /\ calls' = RemoveAt(calls, i)
  /\ last' = NoOp
  /\ UNCHANGED <<defaultSettings, initV, got, writeOrder, app>>
  /\ AppFrame

InitEcho ==
  /\ store = NoEnginesDoc
  /\ defaultSettings = DefaultSettings
  /\ initPc = "done"
  /\ initRet = store
  /\ mergeRet = Undef
  /\ persisted = Undef
  /\ got = NoGot
  /\ calls = <<>>
  /\ writeOrder = <<>>
  /\ InitSingle
  /\ app = [t \in Tabs |-> IF t = Editor THEN BootedTab(store) ELSE FreshTab]
  /\ inbox = [t \in Tabs |-> <<>>]
  /\ last = NoOp

EchoRead == \E i \in CallIds : UpdateCategoryRead(i)
EchoPanelSettles == \E i \in CallIds, ok \in BOOLEAN : PanelCallSettled(i, ok)
EchoModuleSettles == \E i \in CallIds, ok \in BOOLEAN : EchoSettled(i, ok)
EchoNotified == \E t \in Tabs : HandleStorageChange(t)

NextEcho ==
  \/ \E e \in EchoEdits : PanelEdit(Editor, e)
  \/ \E doc \in EchoRemote : RemoteWrite(doc)
  \/ EchoRead
  \/ EchoPanelSettles
  \/ EchoModuleSettles
  \/ EchoNotified

SpecEcho == InitEcho /\ [][NextEcho]_vars

\* Storage answers every read and every write, and every notification is
\* delivered.
SpecEchoFair ==
  /\ SpecEcho
  /\ WF_vars(EchoRead)
  /\ WF_vars(EchoPanelSettles)
  /\ WF_vars(EchoModuleSettles)
  /\ WF_vars(EchoNotified)

\* C38: after the user's edits (one in the page's panel and one in another
\* page, at most) the page eventually stops writing: from some point on no
\* storage call is pending and no notification is waiting.
C38_WritesStop == <>[]Quiescent

----------------------------------------------------------------------------
(* The selected engine and the stored default, in one page *)

\* The documents the page opens on.
SelectStores ==
  {PutKey(DefaultSettings, "engines", "default", Str(id)) :
     id \in {"google", "duckduckgo"}}

\* One page has booted on the stored document; the other is not open.
InitSelect ==
  /\ store \in SelectStores
  /\ defaultSettings = DefaultSettings
  /\ initPc = "done"
  /\ initRet = store
  /\ mergeRet = Undef
  /\ persisted = Undef
  /\ got = NoGot
  /\ calls = <<>>
  /\ writeOrder = <<>>
  /\ InitSingle
  /\ app = [t \in Tabs |-> IF t = Editor THEN BootedTab(store) ELSE FreshTab]
  /\ inbox = [t \in Tabs |-> <<>>]
  /\ last = NoOp

\* The behaviours of one page in which storage does not fail: the Tab key,
\* the default engine chosen in the panel, engines added, renamed and deleted
\* in the panel, and the notifications of the page's own writes.  The user
\* acts while fewer than MaxSelects calls have been made, and the page
\* answers notifications while at most MaxSelects have been.
NextSelect ==
  \/ Len(calls) < MaxSelects /\ PageTabKey(Editor)
  \/ \E e \in EngineEdits : Len(calls) < MaxSelects /\ PanelEdit(Editor, e)
  \/ \E op \in EngineOps : Len(calls) < MaxSelects /\ PanelEngineOp(Editor, op)
  \/ \E i \in CallIds : UpdateCategoryRead(i)
  \/ \E i \in CallIds : PanelCallSettled(i, TRUE)
  \/ \E i \in CallIds : PageCallSettled(i, TRUE)
  \/ Len(calls) <= MaxSelects /\ HandleStorageChange(Editor)

SpecSelect == InitSelect /\ [][NextSelect]_vars

\* The id of the engine Search has selected in page t ("" if there is none).
SelectedId(t) ==
  LET s == app[t].search
  IN  IF s.currentEngineIndex + 1 \in DOMAIN s.engines
      THEN s.engines[s.currentEngineIndex + 1].id ELSE ""

=============================================================================
